---------------------------- MODULE Spec2Model ----------------------------
(***************************************************************************)
(* A model of beartype's PEP-compliant type-checking code generator,       *)
(* pep_code_check_hint (beartype/_decor/_code/_pep/_pephint.py), and of    *)
(* the code snippets it formats (_pepsnip.py).                             *)
(*                                                                         *)
(* Python text is modelled as a sequence of tokens (strings).  A format    *)
(* field of a snippet is the token "{name}", a brace-protected field is    *)
(* the token "{{name}}", a line break is "NL" and one indentation unit of  *)
(* four spaces is "    ".  Python comments inside the snippets are left    *)
(* out, as Python's tokenizer discards them.                               *)
(***************************************************************************)
EXTENDS Integers, Sequences, FiniteSets, TLC

(***************************************************************************)
(* Bounds of the model.                                                    *)
(***************************************************************************)
\* Longest list or tuple of plain objects among the checked values.
MaxSeqLen == 2
\* The pseudo-random integer of a check ranges over 0..MaxRandom.
MaxRandom == 2
\* The deepest root hint nests MaxNesting lists.
MaxNesting == 11

(***************************************************************************)
(* Text: tokens, str(), str.format(), str.replace().                       *)
(***************************************************************************)
Digits == <<"0", "1", "2", "3", "4", "5", "6", "7", "8", "9">>

DigitSet == {Digits[i] : i \in 1..10}

DigitVal(tok) == (CHOOSE i \in 1..10 : Digits[i] = tok) - 1

RECURSIVE Str(_)
\* str(n) of a non-negative integer, one token per decimal digit.
Str(n) ==
    IF n < 10 THEN <<Digits[n + 1]>>
    ELSE Str(n \div 10) \o <<Digits[(n % 10) + 1]>>

RECURSIVE Flatten(_)
\* The concatenation of a sequence of sequences, by halves.
Flatten(seqs) ==
    IF seqs = <<>> THEN <<>>
    ELSE IF Len(seqs) = 1 THEN seqs[1]
    ELSE LET half == Len(seqs) \div 2
         IN  Flatten(SubSeq(seqs, 1, half))
                 \o Flatten(SubSeq(seqs, half + 1, Len(seqs)))

\* The format fields the snippets use.
Fields ==
    { "{indent_curr}", "{pith_curr_expr}", "{pith_curr_assign_expr}",
      "{pith_curr_assigned_expr}", "{hint_curr_expr}",
      "{hint_child_placeholder}", "{hint_childs_len}", "{pith_child_index}",
      "{random_int_if_any}", "{hint_child_expr}", "{indent}", "{obj}",
      "{hint_child_types_expr}", "{arg_index}", "{arg_index!r}",
      "{arg_name!r}", "{arg_cls_stack}", "{arg_random_int}" }

\* The brace-protected fields, which one str.format() turns into fields.
Unescaped(tok) ==
    IF tok = "{{indent_curr}}" THEN "{indent_curr}" ELSE tok

\* str.format(**kw) raises KeyError when the text names a field kw lacks.
FormatRaises(text, kw) ==
    \E i \in 1..Len(text) : text[i] \in Fields /\ text[i] \notin DOMAIN kw

\* str.format(**kw): every field replaced by its value, every
\* brace-protected field by the field itself.
Format(text, kw) ==
    Flatten([i \in 1..Len(text) |->
        IF text[i] \in Fields /\ text[i] \in DOMAIN kw THEN kw[text[i]]
        ELSE <<Unescaped(text[i])>>])

\* The items of a sequence.
Range(text) == {text[i] : i \in 1..Len(text)}

\* Whether old occurs in text at position i.
OccursAt(text, old, i) ==
    /\ i + Len(old) - 1 <= Len(text)
    /\ \A j \in 1..Len(old) : text[i + j - 1] = old[j]

Occurs(text, old) == \E i \in 1..Len(text) : OccursAt(text, old, i)

\* Number of occurrences of old in text.
Count(text, old) == Cardinality({i \in 1..Len(text) : OccursAt(text, old, i)})

RECURSIVE ReplaceFrom(_, _, _, _)
\* text[i:] with every occurrence of old replaced by new, left to right.
ReplaceFrom(text, old, new, i) ==
    LET found == {j \in i..Len(text) : OccursAt(text, old, j)}
    IN  IF found = {} \/ old = <<>> THEN SubSeq(text, i, Len(text))
        ELSE LET j == CHOOSE k \in found : \A l \in found : k <= l
             IN  SubSeq(text, i, j - 1) \o new
                     \o ReplaceFrom(text, old, new, j + Len(old))

\* replace_str_substrs(): str.replace(), every occurrence of old replaced.
replace_str_substrs(text, old, new) == ReplaceFrom(text, old, new, 1)

(***************************************************************************)
(* The code snippets of _pepsnip.py.                                       *)
(***************************************************************************)
PEP_CODE_PITH_ASSIGN_EXPR ==
    <<"{pith_curr_assigned_expr}", ":=", "{pith_curr_expr}">>

PEP_CODE_PITH_NAME_PREFIX == "__beartype_pith_"

PEP_CODE_PITH_ROOT_NAME == <<PEP_CODE_PITH_NAME_PREFIX, "0">>

PEP_CODE_HINT_CHILD_PLACEHOLDER_PREFIX == "@["

PEP_CODE_HINT_CHILD_PLACEHOLDER_SUFFIX == ")!"

\* The text before the root placeholder: 'if not '.
PEP_CODE_CHECK_HINT_ROOT_PREFIX ==
    <<"NL", "    ", "    ", "if", "not">>

\* The text after the root expression: ':' and the call raising the
\* violation, which is passed the random integer if any.
PEP_CODE_CHECK_HINT_ROOT_SUFFIX ==
    <<":", "NL", "    ", "    ", "    ",
      "__beartype_raise_pep_call_exception(", "NL",
      "    ", "    ", "    ", "    ", "func=", "__beartype_func", ",", "NL",
      "    ", "    ", "    ", "    ", "pith_name=", "$PITH_ROOT_NAME", ",",
      "NL",
      "    ", "    ", "    ", "    ", "pith_value=", "__beartype_pith_", "0",
      ",", "{random_int_if_any}", "NL",
      "    ", "    ", "    ", ")", "NL">>

PEP_CODE_CHECK_HINT_ROOT_SUFFIX_RANDOM_INT ==
    <<"NL", "    ", "    ", "    ", "    ",
      "random_int=", "__beartype_random_int", ",">>

PEP_CODE_CHECK_HINT_NONPEP_TYPE ==
    <<"isinstance(", "{pith_curr_expr}", ",", "{hint_curr_expr}", ")">>

PEP_CODE_CHECK_HINT_SEQUENCE_STANDARD ==
    <<"(", "NL",
      "{indent_curr}", "    ", "isinstance(", "{pith_curr_assign_expr}", ",",
          "{hint_curr_expr}", ")", "and", "NL",
      "{indent_curr}", "    ", "(", "not", "{pith_curr_assigned_expr}", "or",
          "{hint_child_placeholder}", ")", "NL",
      "{indent_curr}", ")">>

PEP_CODE_CHECK_HINT_SEQUENCE_STANDARD_PITH_CHILD_EXPR ==
    <<"{pith_curr_assigned_expr}", "[", "__beartype_random_int", "%",
      "len(", "{pith_curr_assigned_expr}", ")", "]">>

PEP_CODE_CHECK_HINT_TUPLE_FIXED_PREFIX ==
    <<"(", "NL",
      "{indent_curr}", "    ", "isinstance(", "{pith_curr_assign_expr}", ",",
          "{hint_curr_expr}", ")", "and">>

PEP_CODE_CHECK_HINT_TUPLE_FIXED_SUFFIX ==
    <<"NL", "{indent_curr}", ")">>

PEP_CODE_CHECK_HINT_TUPLE_FIXED_EMPTY ==
    <<"NL", "{{indent_curr}}", "    ", "not", "{pith_curr_assigned_expr}",
      "and">>

PEP_CODE_CHECK_HINT_TUPLE_FIXED_LEN ==
    <<"NL", "{{indent_curr}}", "    ", "len(", "{pith_curr_assigned_expr}",
      ")", "==", "{hint_childs_len}", "and">>

PEP_CODE_CHECK_HINT_TUPLE_FIXED_NONEMPTY_CHILD ==
    <<"NL", "{{indent_curr}}", "    ", "{hint_child_placeholder}", "and">>

PEP_CODE_CHECK_HINT_TUPLE_FIXED_NONEMPTY_PITH_CHILD_EXPR ==
    <<"{pith_curr_assigned_expr}", "[", "{pith_child_index}", "]">>

PEP484_CODE_CHECK_HINT_UNION_PREFIX == <<"(">>

PEP484_CODE_CHECK_HINT_UNION_SUFFIX == <<"NL", "{indent_curr}", ")">>

PEP484_CODE_CHECK_HINT_UNION_CHILD_PEP ==
    <<"NL", "{{indent_curr}}", "    ", "{hint_child_placeholder}", "or">>

PEP484_CODE_CHECK_HINT_UNION_CHILD_NONPEP ==
    <<"NL", "{{indent_curr}}", "    ", "isinstance(", "{pith_curr_expr}", ",",
      "{hint_curr_expr}", ")", "or">>

\* The snippets of a metahint annotated by beartype validators: the child
\* hint, then one test per validator.
PEP593_CODE_CHECK_HINT_SUBSCRIPTEDIS_PREFIX ==
    <<"(", "NL", "{indent_curr}", "    ", "{hint_child_placeholder}", "and">>

PEP593_CODE_CHECK_HINT_SUBSCRIPTEDIS_SUFFIX == <<"NL", "{indent_curr}", ")">>

PEP593_CODE_CHECK_HINT_SUBSCRIPTEDIS_CHILD ==
    <<"NL", "{indent_curr}", "    ", "{hint_child_expr}", "and">>

\* The snippets of a literal: the types of its objects, then one
\* comparison per object.
PEP586_CODE_CHECK_HINT_PREFIX ==
    <<"(", "NL",
      "{{indent_curr}}", "    ", "isinstance(", "{pith_curr_assign_expr}", ",",
          "{hint_child_types_expr}", ")", "and", "(">>

PEP586_CODE_CHECK_HINT_SUFFIX == <<"NL", "{indent_curr}", ")", ")">>

PEP586_CODE_CHECK_HINT_LITERAL ==
    <<"NL", "{{indent_curr}}", "    ", "    ", "{pith_curr_assigned_expr}",
      "==", "{hint_child_expr}", "or">>

PEP484_CODE_CHECK_HINT_GENERIC_PREFIX ==
    <<"(", "NL",
      "{indent_curr}", "    ", "isinstance(", "{pith_curr_assign_expr}", ",",
          "{hint_curr_expr}", ")", "and">>

PEP484_CODE_CHECK_HINT_GENERIC_SUFFIX == <<"NL", "{indent_curr}", ")">>

PEP484_CODE_CHECK_HINT_GENERIC_CHILD ==
    <<"NL", "{{indent_curr}}", "    ", "{hint_child_placeholder}", "and">>

\* The placeholder of an unqualified forward reference.
PEP_CODE_HINT_FORWARDREF_UNQUALIFIED_PLACEHOLDER_PREFIX == <<"${FORWARDREF:">>

PEP_CODE_HINT_FORWARDREF_UNQUALIFIED_PLACEHOLDER_SUFFIX == <<"]?">>

\* The name the scope binds to the callable of a validator.
VALIDATOR_NAME_PREFIX == "__beartype_is_valid_"

\* The indentation units of beartype._util.text.utiltextmagic.
CODE_INDENT_1 == <<"    ">>

CODE_INDENT_2 == <<"    ", "    ">>

\* The slices [:LINE_RSTRIP_INDEX_AND] and [:LINE_RSTRIP_INDEX_OR] strip the
\* trailing ' and' and ' or', each of which is one token here.
LINE_RSTRIP_INDEX_AND == -1

LINE_RSTRIP_INDEX_OR == -1

\* text[:index] for a negative index.
SliceTo(text, index) ==
    IF Len(text) + index <= 0 THEN <<>> ELSE SubSeq(text, 1, Len(text) + index)

\* Whether the text holds a child-hint placeholder: the prefix, one or more
\* decimal digits, the suffix.
IsPlaceholderAt(text, i, j) ==
    /\ i + 1 < j
    /\ text[i] = PEP_CODE_HINT_CHILD_PLACEHOLDER_PREFIX
    /\ text[j] = PEP_CODE_HINT_CHILD_PLACEHOLDER_SUFFIX
    /\ \A m \in (i + 1)..(j - 1) : text[m] \in DigitSet

HasPlaceholder(text) ==
    \E i \in {k \in 1..Len(text) :
                  text[k] = PEP_CODE_HINT_CHILD_PLACEHOLDER_PREFIX} :
        \E j \in {k \in i..Len(text) :
                      text[k] = PEP_CODE_HINT_CHILD_PLACEHOLDER_SUFFIX} :
            IsPlaceholderAt(text, i, j)

(***************************************************************************)
(* Type hints.  A hint is a record: k its kind, n the name of its class    *)
(* or origin type, a the sequence of its child hints (__args__).           *)
(*   "cls"         a class that is not a typing object (X, Y)              *)
(*   "any"         typing.Any, ignorable                                   *)
(*   "bare"        a typing object that is its own sign (typing.List)      *)
(*   "shallow"     a subscripted hint supported only shallowly (Dict[X,Y]) *)
(*   "list"        a standard sequence, List[T]                            *)
(*   "tuple"       Tuple[...]: fixed-length, empty, or variadic Tuple[T,...]*)
(*   "union"       Union[...]                                              *)
(*   "unsupported" a PEP-compliant hint beartype does not support          *)
(*   "nobranch"    a supported PEP-compliant hint no branch handles        *)
(*   "bad"         an object neither PEP-compliant nor a class             *)
(*   "ellipsis"    the Ellipsis singleton of Tuple[T, ...]                 *)
(***************************************************************************)
Hint(k, n, a) == [k |-> k, n |-> n, a |-> a]

X == Hint("cls", "X", <<>>)

Y == Hint("cls", "Y", <<>>)

AnyHint == Hint("any", "object", <<>>)

Ellipsis == Hint("ellipsis", "ellipsis", <<>>)

ListBare == Hint("bare", "list", <<>>)

DictXY == Hint("shallow", "dict", <<X, Y>>)

Unsupported == Hint("unsupported", "unsupported", <<>>)

NoBranch == Hint("nobranch", "nobranch", <<>>)

Bad == Hint("bad", "bad", <<>>)

List(T) == Hint("list", "list", <<T>>)

Tuple(args) == Hint("tuple", "tuple", args)

TupleVar(T) == Tuple(<<T, Ellipsis>>)

Union(args) == Hint("union", "Union", args)

\* typing.NoReturn, a typing object that is its own sign.
NoReturn == Hint("noreturn", "NoReturn", <<>>)

\* The None singleton, and the class of it.
NoneHint == Hint("none", "None", <<>>)

NoneType == Hint("cls", "NoneType", <<>>)

\* Objects that annotate a metahint: two validators made by subscripting
\* beartype.vale.Is, and an object that is none.
Is1 == Hint("validator", "1", <<>>)

Is2 == Hint("validator", "2", <<>>)

Meta == Hint("meta", "meta", <<>>)

\* typing.Annotated[T, ...], annotated by the objects of meta.
Annotated(T, meta) == Hint("annotated", "Annotated", <<T>> \o meta)

\* typing.NewType(name, T).
NewType(name, T) == Hint("newtype", name, <<T>>)

\* is_hint_pep(): whether the hint is a PEP-compliant typing object.
is_hint_pep(hint) ==
    hint.k \notin {"cls", "bad", "ellipsis", "none", "validator", "meta",
                   "object"}

\* isinstance(hint, type).
is_class(hint) == hint.k = "cls"

\* HINTS_IGNORABLE_SHALLOW.
HINTS_IGNORABLE_SHALLOW == {AnyHint}

\* is_hint_pep593(), is_hint_pep593_beartype(): whether the hint is a
\* metahint, and one whose second argument is a beartype validator.
is_hint_pep593(hint) == hint.k = "annotated"

is_hint_pep593_beartype(hint) == hint.a[2].k = "validator"

\* get_hint_pep593_metahint(), get_hint_pep593_metadata().
get_hint_pep593_metahint(hint) == hint.a[1]

get_hint_pep593_metadata(hint) == Tail(hint.a)

\* An object subscripting a literal, written as its repr(), and the literal
\* subscripted by such objects.
Object(repr) == Hint("object", repr, <<>>)

Literal(objects) == Hint("literal", "Literal", objects)

\* type(obj) of an object subscripting a literal.
TypeOf(obj) ==
    CASE obj.n \in {"1", "2"} -> "int"
      [] obj.n \in {"True", "False"} -> "bool"
      [] obj.n = "1.5" -> "float"
      [] OTHER -> "str"

\* die_unless_hint_pep586() raises unless every object is of a type that
\* PEP 586 allows.
is_hint_pep586(hint) ==
    /\ hint.a # <<>>
    /\ \A i \in 1..Len(hint.a) : TypeOf(hint.a[i]) \in {"int", "bool", "str"}

\* The generic or protocol that the class of the given name is, with the
\* pseudo-superclasses it lists.
GenericHint(name, bases) == Hint("generic", name, bases)

\* class G(List[X]), class H(B), class H(B, List[List[Y]]) and such.
B == Hint("cls", "B", <<>>)

\* is_hint_pep544_io_generic(): typing.IO and such, and
\* get_hint_pep544_io_protocol_from_generic(): the protocol that stands for
\* it.
IOHint == Hint("iogeneric", "IO", <<>>)

is_hint_pep544_io_generic(hint) == hint.k = "iogeneric"

get_hint_pep544_io_protocol_from_generic(hint) ==
    GenericHint("_Pep544IO", <<>>)

\* get_hint_pep_generic_type_or_none(), get_hint_pep_generic_bases_unerased().
get_hint_pep_generic_type_or_none(hint) == hint.n

get_hint_pep_generic_bases_unerased(hint) == hint.a

\* is_hint_pep585_builtin(): a builtin type subscripted, as list[int]; the
\* hints modelled are those of the typing module.
is_hint_pep585_builtin(hint) == hint.k = "pep585"

\* is_hint_pep_typing(): a hint the typing module defines.
is_hint_pep_typing(hint) ==
    hint.k \in {"any", "bare", "shallow", "list", "tuple", "union", "literal",
                "annotated", "newtype", "forwardref", "iogeneric",
                "unsupported", "noreturn"}

\* get_hint_pep484_generic_base_erased_from_unerased(): the class a
\* pseudo-superclass originates from.
get_hint_pep484_generic_base_erased_from_unerased(hint) ==
    Hint("cls", hint.n, <<>>)

\* A forward reference to the class of the given name.
ForwardRef(classname) == Hint("forwardref", classname, <<>>)

\* get_hint_forwardref_classname().
get_hint_forwardref_classname(hint) == hint.n

\* The characters of a classname: the names of its module and of its class.
Chars(classname) ==
    CASE classname = "m.X" -> <<"m", ".", "X">>
      [] classname = "m.Y" -> <<"m", ".", "Y">>
      [] OTHER -> <<classname>>

\* The class a classname refers to, from the module that declares the
\* callable if the classname is unqualified.
ClassOf(classname) == Chars(classname)[Len(Chars(classname))]

\* The name of the parameter passing the registry of classes, and the
\* expression register_typistry_forwardref() returns: the class looked up
\* in that registry by its name.
ARG_NAME_TYPISTRY == <<"__beartypistry">>

register_typistry_forwardref(classname) ==
    ARG_NAME_TYPISTRY \o <<"[", classname, "]">>

\* isinstance(obj, _SubscriptedIs), and the code and the locals of such a
\* validator: a call of its callable, which the locals bind.
is_subscripted_is(obj) == obj.k = "validator"

is_valid_code(obj) == <<VALIDATOR_NAME_PREFIX, obj.n, "(", "{obj}", ")">>

is_valid_code_locals(obj) ==
    {[name |-> <<VALIDATOR_NAME_PREFIX, obj.n>>, types |-> {}, value |-> obj]}

\* is_hint_pep484_newtype(), get_hint_pep484_newtype_class().
is_hint_pep484_newtype(hint) == hint.k = "newtype"

get_hint_pep484_newtype_class(hint) == hint.a[1]

RECURSIVE is_hint_ignorable(_)
\* is_hint_ignorable(): whether the hint imposes no constraint: typing.Any,
\* a union of which some child is ignorable, or an ignorable hint with
\* annotations none of which is a validator.
is_hint_ignorable(hint) ==
    \/ hint \in HINTS_IGNORABLE_SHALLOW
    \/ /\ hint.k = "union"
       /\ \E i \in 1..Len(hint.a) : is_hint_ignorable(hint.a[i])
    \/ /\ is_hint_pep593(hint)
       /\ ~is_hint_pep593_beartype(hint)
       /\ is_hint_ignorable(get_hint_pep593_metahint(hint))

\* get_hint_pep_sign(): the kind identifies the sign.
get_hint_pep_sign(hint) == hint.k

\* get_hint_pep_args().
get_hint_pep_args(hint) == hint.a

\* get_hint_pep_stdlib_type(): the origin type.
get_hint_pep_stdlib_type(hint) == hint.n

\* is_hint_pep_tuple_empty(): Tuple[()].
is_hint_pep_tuple_empty(hint) == hint.k = "tuple" /\ hint.a = <<>>

HINT_PEP_SIGNS_SEQUENCE_STANDARD == {"list"}

HINT_PEP_SIGNS_TUPLE == {"tuple"}

HINT_PEP_SIGNS_UNION == {"union"}

HINT_PEP593_SIGN_ANNOTATED == "annotated"

HINT_PEP484_TYPE_FORWARDREF == "forwardref"

HINT_PEP586_SIGN_LITERAL == "literal"

\* typing.Generic, the sign of generics and protocols.
Generic == "generic"

HINT_PEP_SIGNS_TYPE_ORIGIN_STDLIB == {"bare", "shallow", "list", "tuple"}

HINT_PEP_SIGNS_SUPPORTED_DEEP == {"list", "tuple", "union"}

(***************************************************************************)
(* The root hints compiled.  Unions take two or three alternatives of a    *)
(* pool, in the order of the pool.                                         *)
(***************************************************************************)
RECURSIVE SelectByIndex(_, _, _)
SelectByIndex(seq, I, i) ==
    IF i > Len(seq) THEN <<>>
    ELSE (IF i \in I THEN <<seq[i]>> ELSE <<>>) \o SelectByIndex(seq, I, i + 1)

UnionPool == <<X, Y, ListBare, DictXY, List(X), List(Y), TupleVar(X)>>

Unions ==
    { Union(SelectByIndex(UnionPool, I, 1)) :
        I \in {J \in SUBSET (1..Len(UnionPool)) : Cardinality(J) \in {2, 3}} }

Leaves == {X, Y, ListBare, DictXY}

FixedTuples ==
    { Tuple(<<>>), Tuple(<<X>>), Tuple(<<X, Y>>), Tuple(<<AnyHint, X>>),
      Tuple(<<ListBare, AnyHint>>), Tuple(<<List(X), Y>>) }

Level1 ==
    { List(c) : c \in Leaves \cup {AnyHint, Bad, NoBranch, Unsupported} }
        \cup { TupleVar(c) : c \in {X, Y, AnyHint, ListBare, Bad} }
        \cup FixedTuples

Level2 ==
    { List(c) : c \in Unions \cup Level1 \cup {Union(<<X, AnyHint>>)} }
        \cup { TupleVar(c) : c \in Unions \cup {List(X), TupleVar(Y)} }
        \cup { Union(<<X, List(c)>>) : c \in {NoBranch, Bad, List(X)} }
        \cup { Union(<<List(X), NoBranch>>), Union(<<ListBare, Unsupported>>),
               Union(<<List(Y), Tuple(<<X, Y>>)>>) }

Level3 ==
    { List(List(u)) : u \in { Union(<<X, ListBare>>), Union(<<X, List(Y)>>),
                              Union(<<ListBare, DictXY>>) } }

\* Root hints that are reducible or hold reducible hints.
Aliases ==
    { NewType("N", X), Annotated(X, <<Meta>>), Annotated(List(Y), <<Meta, Meta>>),
      List(NoneHint), List(NewType("N", Y)), Union(<<X, NoneType>>),
      Union(<<NoneType, List(X)>>), TupleVar(Annotated(List(X), <<Meta>>)),
      NewType("M", NewType("N", X)), Annotated(NewType("N", X), <<Meta>>),
      List(Annotated(NewType("N", X), <<Meta>>)), NewType("N", NoneHint),
      List(Annotated(AnyHint, <<Meta>>)), Annotated(NoneType, <<Meta>>),
      IOHint, List(IOHint), Annotated(IOHint, <<Meta>>) }

\* Root hints that are or hold metahints annotated by validators.
Metahints ==
    { Annotated(X, <<Is1>>), Annotated(List(X), <<Is1>>),
      Annotated(List(X), <<Is1, Is2>>), Annotated(ListBare, <<Is2, Is1>>),
      List(Annotated(X, <<Is1>>)), List(Annotated(ListBare, <<Is1>>)),
      List(Annotated(List(X), <<Is1>>)), TupleVar(Annotated(List(Y), <<Is2>>)),
      Union(<<X, Annotated(List(Y), <<Is1>>)>>),
      Union(<<ListBare, Annotated(Y, <<Is1>>)>>),
      Annotated(Union(<<X, List(Y)>>), <<Is2>>),
      Annotated(TupleVar(X), <<Is2>>),
      Annotated(AnyHint, <<Is1>>), List(Annotated(AnyHint, <<Is2>>)),
      Annotated(Union(<<X, AnyHint>>), <<Is1>>),
      Annotated(X, <<Is1, Meta>>), Annotated(List(X), <<Is1, Is2, Meta>>),
      List(Annotated(Y, <<Is2, Meta>>)),
      Union(<<X, Annotated(List(Y), <<Is1, Meta>>)>>),
      List(List(Annotated(X, <<Is1, Meta, Is2>>))) }

\* Root hints whose scope binds classes, tuples of classes, objects,
\* validators, the registry and the random number generator.
Scopes ==
    { Annotated(Union(<<List(Literal(<<Object("1")>>)),
                        Literal(<<Object("a"), Object("1")>>),
                        Annotated(List(ForwardRef("m.X")), <<Is1>>)>>),
                <<Is1, Is2>>),
      List(Annotated(List(X), <<Is2, Is1, Is2>>)),
      Union(<<X, Y, List(Union(<<X, Y>>)), List(Union(<<X, ListBare>>))>>) }

\* Root hints that are or hold typing.NoReturn.
NoReturns ==
    { NoReturn, Union(<<X, NoReturn>>), Union(<<NoReturn, List(X)>>),
      List(NoReturn), TupleVar(NoReturn), Tuple(<<X, NoReturn>>),
      List(Union(<<Y, NoReturn>>)), Annotated(NoReturn, <<Is1>>),
      Annotated(NoReturn, <<Meta>>), List(Annotated(NoReturn, <<Meta>>)),
      GenericHint("G", <<List(NoReturn)>>),
      Annotated(List(List(NoReturn)), <<Is2>>) }

\* Root hints that are or hold literals.
Literals ==
    { Literal(<<Object("1")>>), Literal(<<Object("1"), Object("2")>>),
      Literal(<<Object("a"), Object("1")>>),
      Literal(<<Object("True"), Object("2"), Object("a")>>),
      Literal(<<Object("1.5")>>), Literal(<<Object("1"), Object("1.5")>>),
      List(Literal(<<Object("1")>>)),
      List(Literal(<<Object("a"), Object("2")>>)),
      Union(<<X, Literal(<<Object("1"), Object("a")>>)>>),
      Union(<<Literal(<<Object("1")>>), List(Literal(<<Object("1")>>))>>),
      Annotated(Literal(<<Object("2"), Object("1")>>), <<Is1>>),
      TupleVar(Literal(<<Object("True")>>)) }

\* Root hints that are or hold generics.
Generics ==
    { GenericHint("G", <<List(X)>>), GenericHint("H", <<B>>),
      GenericHint("G", <<List(List(X))>>),
      GenericHint("G", <<B, List(Y)>>),
      GenericHint("G", <<List(Union(<<X, List(Y)>>))>>),
      GenericHint("G", <<List(AnyHint)>>),
      List(GenericHint("G", <<List(X)>>)), List(GenericHint("H", <<B>>)),
      Union(<<X, GenericHint("G", <<List(Y)>>)>>),
      Annotated(GenericHint("G", <<List(X)>>), <<Is1>>),
      TupleVar(GenericHint("G", <<List(X)>>)) }

\* Root hints that are or hold forward references.
ForwardRefs ==
    { ForwardRef("X"), ForwardRef("m.X"), List(ForwardRef("Y")),
      List(ForwardRef("m.Y")), Tuple(<<ForwardRef("X"), ForwardRef("Y")>>),
      Union(<<ForwardRef("X"), ForwardRef("Y")>>),
      Union(<<ForwardRef("Y"), ForwardRef("m.X"), ForwardRef("X")>>),
      Union(<<ForwardRef("m.X"), ForwardRef("m.Y")>>),
      Union(<<List(ForwardRef("X")), ForwardRef("X")>>),
      Union(<<List(ForwardRef("m.X")), ForwardRef("Y"), ForwardRef("m.X")>>),
      Union(<<List(ForwardRef("X")), ForwardRef("X"), ForwardRef("Y"),
              ForwardRef("m.X")>>),
      Union(<<X, ForwardRef("Y")>>), Union(<<ForwardRef("m.X"), List(Y)>>),
      Annotated(ForwardRef("X"), <<Is1>>), Annotated(ForwardRef("m.X"), <<Meta>>),
      Annotated(Union(<<ForwardRef("X"), ForwardRef("Y")>>), <<Is2>>),
      List(Annotated(ForwardRef("Y"), <<Is2>>)),
      TupleVar(List(ForwardRef("X"))) }

RECURSIVE Nested(_)
\* n lists nested in one another around the class X.
Nested(n) == IF n = 0 THEN X ELSE List(Nested(n - 1))

\* The root hints: PEP-compliant and not ignorable, as the caller ensures.
RootHints ==
    {ListBare, DictXY} \cup {NoBranch, Unsupported} \cup Unions \cup Level1 \cup Level2
        \cup Level3 \cup {Nested(MaxNesting)} \cup Aliases
        \cup Metahints \cup ForwardRefs \cup Generics \cup Literals
        \cup Scopes \cup NoReturns

(***************************************************************************)
(* The scope of the wrapper function: a mapping from the name of a hidden  *)
(* parameter to the class, or the set of classes, bound to it.             *)
(***************************************************************************)
ClassNames ==
    <<"B", "G", "H", "NoneType", "X", "Y", "_Pep544IO", "bool", "dict", "int",
      "list", "str", "tuple">>

\* add_func_scope_type(): binds the class and returns the name bound to it.
add_func_scope_type(cls, scope) ==
    LET name == <<"__beartype_type_", cls>>
    IN  [expr |-> name,
         scope |-> scope \cup {[name |-> name, types |-> {cls}]}]

\* add_func_scope_types(): binds the tuple of the classes and returns the
\* name bound to it.
add_func_scope_types(types, scope) ==
    LET name == <<"__beartype_tuple_">>
                    \o SelectSeq(ClassNames, LAMBDA c : c \in types)
    IN  [expr |-> name,
         scope |-> scope \cup {[name |-> name, types |-> types]}]

\* add_func_scope_attr(): binds the object and returns the name bound to
\* it.
add_func_scope_attr(attr, scope) ==
    LET name == <<"__beartype_object_", attr.n>>
    IN  [expr |-> name,
         scope |-> scope \cup {[name |-> name, types |-> {},
                                value |-> attr]}]

(***************************************************************************)
(* The queue of hints to visit: the fixed list hints_meta, the index of    *)
(* its last item and the last placeholder identifier.                      *)
(***************************************************************************)
\* Length of the fixed list hints_meta.
SIZE_BIG == 16

None == <<>>

\* A placeholder that no suffix delimits.
PlaceholderUndelimited(id) ==
    <<PEP_CODE_HINT_CHILD_PLACEHOLDER_PREFIX>> \o Str(id)

\* The placeholder of identifier id.
Placeholder(id) ==
    <<PEP_CODE_HINT_CHILD_PLACEHOLDER_PREFIX>> \o Str(id)
        \o <<PEP_CODE_HINT_CHILD_PLACEHOLDER_SUFFIX>>

\* _enqueue_hint_child(): q holds hints_meta (meta), hints_meta_index_last
\* (last), hint_child_placeholder_id (id), the exception raised if any (exc)
\* and the placeholder returned.  Assigning past the end of the fixed list
\* raises IndexError.
enqueue_hint_child(q, hint_child, pith_child_expr, indent_child) ==
    LET last == q.last + 1
        id == q.id + 1
        placeholder == Placeholder(id)
    IN  IF q.exc # "" THEN q
        ELSE IF last >= SIZE_BIG
        THEN [q EXCEPT !.last = last, !.id = id, !.exc = "IndexError",
                       !.placeholder = placeholder]
        ELSE [q EXCEPT !.last = last, !.id = id,
                       !.placeholder = placeholder,
                       !.meta = [@ EXCEPT ![last] =
                           <<hint_child, placeholder, pith_child_expr,
                             indent_child>>]]

\* The reduction of the current hint: one test of the chain applies.
Reduced(hint_curr) ==
    IF hint_curr = NoneHint THEN NoneType
    ELSE IF is_hint_pep593(hint_curr)
    THEN IF ~is_hint_pep593_beartype(hint_curr)
         THEN get_hint_pep593_metahint(hint_curr)
         ELSE hint_curr
    ELSE IF is_hint_pep544_io_generic(hint_curr)
    THEN get_hint_pep544_io_protocol_from_generic(hint_curr)
    ELSE IF is_hint_pep484_newtype(hint_curr)
    THEN get_hint_pep484_newtype_class(hint_curr)
    ELSE hint_curr

\* The current hint as the loop body unpacks it from its metadata, with
\* the expressions of the current pith: a PEP-compliant hint whose pith is
\* not the root pith assigns it to a new local variable by an assignment
\* expression.
Frame(hint_curr_meta, counter) ==
    LET hint_curr == Reduced(hint_curr_meta[1])
        pith_curr_expr == hint_curr_meta[3]
        indent_curr == hint_curr_meta[4]
        is_assigned ==
            is_hint_pep(hint_curr) /\ pith_curr_expr # PEP_CODE_PITH_ROOT_NAME
        assigned == <<PEP_CODE_PITH_NAME_PREFIX>> \o Str(counter + 1)
    IN  [hint_curr |-> hint_curr,
         hint_curr_placeholder |-> hint_curr_meta[2],
         pith_curr_expr |-> pith_curr_expr,
         indent_curr |-> indent_curr,
         indent_child |-> indent_curr \o CODE_INDENT_1,
         counter |-> IF is_assigned THEN counter + 1 ELSE counter,
         pith_curr_assigned_expr |->
             IF is_assigned THEN assigned ELSE pith_curr_expr,
         pith_curr_assign_expr |->
             IF is_assigned
             THEN Format(PEP_CODE_PITH_ASSIGN_EXPR,
                      "{pith_curr_assigned_expr}" :> assigned
                          @@ "{pith_curr_expr}" :> pith_curr_expr)
             ELSE pith_curr_expr]

\* What visiting one hint yields: the exception raised if any, the code of
\* the hint, the queue, the scope, and whether the check needs a random
\* integer.
Out(exc, code, q, locals, rand) ==
    [exc |-> IF q.exc # "" THEN q.exc ELSE exc,
     code |-> code, q |-> q, locals |-> locals, rand |-> rand, refs |-> {},
     sets |-> <<>>]

\* str.format() of the code of a hint, raising KeyError on a missing field.
Formatted(text, kw, q, locals, rand) ==
    IF FormatRaises(text, kw) THEN Out("KeyError", <<>>, q, locals, rand)
    ELSE Out("", Format(text, kw), q, locals, rand)

(***************************************************************************)
(* The branches of the loop body, one per kind of hint: m is the frame of  *)
(* the current hint, q the queue, locals the scope.                        *)
(***************************************************************************)
\* A class that is not a typing object: a shallow isinstance() test.
visit_class(m, q, locals) ==
    LET t == add_func_scope_type(m.hint_curr.n, locals)
    IN  Formatted(PEP_CODE_CHECK_HINT_NONPEP_TYPE,
            "{pith_curr_expr}" :> m.pith_curr_expr
                @@ "{hint_curr_expr}" :> t.expr,
            q, t.scope, FALSE)

\* A shallow test that tests NoReturn as it tests any other hint.
visit_shallow_noreturn(m, q, locals) ==
    LET t == add_func_scope_type(get_hint_pep_stdlib_type(m.hint_curr), locals)
    IN  Formatted(PEP_CODE_CHECK_HINT_NONPEP_TYPE,
            "{pith_curr_expr}" :> m.pith_curr_expr
                @@ "{hint_curr_expr}" :> t.expr,
            q, t.scope, FALSE)

\* A shallow test whose type is not added to the scope.
visit_shallow_unbound(m, q, locals) ==
    IF m.hint_curr = NoReturn
    THEN Out("BeartypeDecorHintPep484Exception", <<>>, q, locals, FALSE)
    ELSE
    Formatted(PEP_CODE_CHECK_HINT_NONPEP_TYPE,
        "{pith_curr_expr}" :> m.pith_curr_expr
            @@ "{hint_curr_expr}" :>
                add_func_scope_type(get_hint_pep_stdlib_type(m.hint_curr),
                                    locals).expr,
        q, locals, FALSE)

\* A hint that is its own sign or is supported only shallowly: NoReturn
\* raises, any other hint yields a shallow isinstance() test against its
\* origin type.
visit_shallow(m, q, locals) ==
    LET t == add_func_scope_type(get_hint_pep_stdlib_type(m.hint_curr), locals)
    IN  IF m.hint_curr = NoReturn
        THEN Out("BeartypeDecorHintPep484Exception", <<>>, q, locals, FALSE)
        ELSE Formatted(PEP_CODE_CHECK_HINT_NONPEP_TYPE,
                 "{pith_curr_expr}" :> m.pith_curr_expr
                     @@ "{hint_curr_expr}" :> t.expr,
                 q, t.scope, FALSE)

\* A sequence whose shallow test, when its child hint is ignorable, tests
\* the item chosen at random in place of the sequence.
visit_sequence_item(m, q, locals) ==
    LET t == add_func_scope_type(get_hint_pep_stdlib_type(m.hint_curr), locals)
        hint_child == get_hint_pep_args(m.hint_curr)[1]
        pith_child_expr ==
            Format(PEP_CODE_CHECK_HINT_SEQUENCE_STANDARD_PITH_CHILD_EXPR,
                "{pith_curr_assigned_expr}" :> m.pith_curr_assigned_expr)
        q1 == enqueue_hint_child(q, hint_child, pith_child_expr,
                                 m.indent_child)
    IN  IF ~is_hint_ignorable(hint_child)
        THEN Formatted(PEP_CODE_CHECK_HINT_SEQUENCE_STANDARD,
                 "{indent_curr}" :> m.indent_curr
                     @@ "{pith_curr_assign_expr}" :> m.pith_curr_assign_expr
                     @@ "{pith_curr_assigned_expr}" :> m.pith_curr_assigned_expr
                     @@ "{hint_curr_expr}" :> t.expr
                     @@ "{hint_child_placeholder}" :> q1.placeholder,
                 q1, t.scope, TRUE)
        ELSE Formatted(PEP_CODE_CHECK_HINT_NONPEP_TYPE,
                 "{pith_curr_expr}" :> pith_child_expr
                     @@ "{hint_curr_expr}" :> t.expr,
                 q, t.scope, TRUE)

\* A visit that enqueues the child hint whether it is ignorable or not.
visit_sequence_eager(m, q, locals) ==
    LET t == add_func_scope_type(get_hint_pep_stdlib_type(m.hint_curr), locals)
        hint_child == get_hint_pep_args(m.hint_curr)[1]
        q1 == enqueue_hint_child(q, hint_child,
                  Format(PEP_CODE_CHECK_HINT_SEQUENCE_STANDARD_PITH_CHILD_EXPR,
                      "{pith_curr_assigned_expr}" :> m.pith_curr_assigned_expr),
                  m.indent_child)
    IN  Formatted(PEP_CODE_CHECK_HINT_SEQUENCE_STANDARD,
            "{indent_curr}" :> m.indent_curr
                @@ "{pith_curr_assign_expr}" :> m.pith_curr_assign_expr
                @@ "{pith_curr_assigned_expr}" :> m.pith_curr_assigned_expr
                @@ "{hint_curr_expr}" :> t.expr
                @@ "{hint_child_placeholder}" :> q1.placeholder,
            q1, t.scope, TRUE)

\* A standard sequence or a variadic tuple: the origin type is tested and,
\* unless the child hint is ignorable, one item chosen at random.
visit_sequence(m, q, locals) ==
    LET t == add_func_scope_type(get_hint_pep_stdlib_type(m.hint_curr), locals)
        hint_child == get_hint_pep_args(m.hint_curr)[1]
        q1 == enqueue_hint_child(q, hint_child,
                  Format(PEP_CODE_CHECK_HINT_SEQUENCE_STANDARD_PITH_CHILD_EXPR,
                      "{pith_curr_assigned_expr}" :> m.pith_curr_assigned_expr),
                  m.indent_child)
    IN  IF ~is_hint_ignorable(hint_child)
        THEN Formatted(PEP_CODE_CHECK_HINT_SEQUENCE_STANDARD,
                 "{indent_curr}" :> m.indent_curr
                     @@ "{pith_curr_assign_expr}" :> m.pith_curr_assign_expr
                     @@ "{pith_curr_assigned_expr}" :> m.pith_curr_assigned_expr
                     @@ "{hint_curr_expr}" :> t.expr
                     @@ "{hint_child_placeholder}" :> q1.placeholder,
                 q1, t.scope, TRUE)
        ELSE Formatted(PEP_CODE_CHECK_HINT_NONPEP_TYPE,
                 "{pith_curr_expr}" :> m.pith_curr_expr
                     @@ "{hint_curr_expr}" :> t.expr,
                 q, t.scope, FALSE)

RECURSIVE TupleChilds(_, _, _)
\* The loop over the child hints of a fixed-length tuple, from the child of
\* 0-based index i on: acc holds the code and the queue so far.
TupleChilds(m, i, acc) ==
    LET hint_childs == get_hint_pep_args(m.hint_curr)
    IN  IF i >= Len(hint_childs) THEN acc
        ELSE IF is_hint_ignorable(hint_childs[i + 1])
        THEN TupleChilds(m, i + 1, acc)
        ELSE LET q1 == enqueue_hint_child(acc.q, hint_childs[i + 1],
                     Format(
                       PEP_CODE_CHECK_HINT_TUPLE_FIXED_NONEMPTY_PITH_CHILD_EXPR,
                       "{pith_curr_assigned_expr}" :> m.pith_curr_assigned_expr
                           @@ "{pith_child_index}" :> Str(i)),
                     m.indent_child)
             IN  TupleChilds(m, i + 1,
                     [code |-> acc.code \o Format(
                          PEP_CODE_CHECK_HINT_TUPLE_FIXED_NONEMPTY_CHILD,
                          "{hint_child_placeholder}" :> q1.placeholder),
                      q |-> q1])

\* A fixed-length tuple: the length is tested, then every item whose child
\* hint is not ignorable.
visit_tuple_fixed(m, q, locals) ==
    LET hint_childs == get_hint_pep_args(m.hint_curr)
        acc == IF is_hint_pep_tuple_empty(m.hint_curr)
               THEN [code |-> PEP_CODE_CHECK_HINT_TUPLE_FIXED_PREFIX \o Format(
                         PEP_CODE_CHECK_HINT_TUPLE_FIXED_EMPTY,
                         "{pith_curr_assigned_expr}"
                             :> m.pith_curr_assigned_expr),
                     q |-> q]
               ELSE TupleChilds(m, 0,
                        [code |-> PEP_CODE_CHECK_HINT_TUPLE_FIXED_PREFIX
                             \o Format(PEP_CODE_CHECK_HINT_TUPLE_FIXED_LEN,
                                 "{pith_curr_assigned_expr}"
                                     :> m.pith_curr_assigned_expr
                                     @@ "{hint_childs_len}"
                                         :> Str(Len(hint_childs))),
                         q |-> q])
    IN  Formatted(
            SliceTo(acc.code, LINE_RSTRIP_INDEX_AND)
                \o PEP_CODE_CHECK_HINT_TUPLE_FIXED_SUFFIX,
            "{indent_curr}" :> m.indent_curr
                @@ "{pith_curr_assign_expr}" :> m.pith_curr_assign_expr,
            acc.q, locals, FALSE)

RECURSIVE UnionChildsPep(_, _, _, _, _)
\* The loop over the PEP-compliant child hints of a union, in the order the
\* set hint_childs_pep iterates them, from 0-based index i on.
UnionChildsPep(m, order, i, has_nonpep, acc) ==
    IF i >= Len(order) THEN acc
    ELSE LET q1 == enqueue_hint_child(acc.q, order[i + 1],
                       IF has_nonpep \/ i > 1
                       THEN m.pith_curr_assigned_expr
                       ELSE m.pith_curr_assign_expr,
                       m.indent_child)
         IN  UnionChildsPep(m, order, i + 1, has_nonpep,
                 [code |-> acc.code \o Format(
                      PEP484_CODE_CHECK_HINT_UNION_CHILD_PEP,
                      "{hint_child_placeholder}" :> q1.placeholder),
                  q |-> q1])

\* The PEP-compliant child hints of a union.
hint_childs_pep_of(hint_curr) ==
    { hint_curr.a[i] :
        i \in {j \in 1..Len(hint_curr.a) : is_hint_pep(hint_curr.a[j])} }

\* The other child hints of a union.
hint_childs_nonpep_of(hint_curr) ==
    { hint_curr.a[i] :
        i \in {j \in 1..Len(hint_curr.a) : ~is_hint_pep(hint_curr.a[j])} }

\* The orders in which a set may iterate its items.
IterationOrders(S) ==
    { f \in [1..Cardinality(S) -> S] :
        \A i, j \in 1..Cardinality(S) : f[i] = f[j] => i = j }

\* A union: one isinstance() test against the tuple of the classes among
\* its child hints, then one test per PEP-compliant child hint, in order.
visit_union(m, q, locals, hint_childs_nonpep, order) ==
    LET t == add_func_scope_types({h.n : h \in hint_childs_nonpep}, locals)
        code1 ==
            IF hint_childs_nonpep # {}
            THEN PEP484_CODE_CHECK_HINT_UNION_PREFIX \o Format(
                     PEP484_CODE_CHECK_HINT_UNION_CHILD_NONPEP,
                     "{pith_curr_expr}" :>
                         (IF order # <<>> THEN m.pith_curr_assign_expr
                          ELSE m.pith_curr_expr)
                         @@ "{hint_curr_expr}" :> t.expr)
            ELSE PEP484_CODE_CHECK_HINT_UNION_PREFIX
        acc == UnionChildsPep(m, order, 0, hint_childs_nonpep # {},
                   [code |-> code1, q |-> q])
        locals1 == IF hint_childs_nonpep # {} THEN t.scope ELSE locals
    IN  IF acc.code # PEP484_CODE_CHECK_HINT_UNION_PREFIX
        THEN Formatted(
                 SliceTo(acc.code, LINE_RSTRIP_INDEX_OR)
                     \o PEP484_CODE_CHECK_HINT_UNION_SUFFIX,
                 "{indent_curr}" :> m.indent_curr,
                 acc.q, locals1, FALSE)
        ELSE Out("", acc.code, acc.q, locals1, FALSE)

RECURSIVE LiteralChilds(_, _, _)
\* The loop over the objects subscripting a literal, from the object of
\* 1-based index i on: acc holds the code and the scope.
LiteralChilds(m, i, acc) ==
    LET hint_childs == get_hint_pep_args(m.hint_curr)
        t == add_func_scope_attr(hint_childs[i], acc.locals)
    IN  IF i > Len(hint_childs) THEN acc
        ELSE LiteralChilds(m, i + 1,
                 [code |-> acc.code \o Format(PEP586_CODE_CHECK_HINT_LITERAL,
                      "{pith_curr_assigned_expr}" :> m.pith_curr_assigned_expr
                          @@ "{hint_child_expr}" :> t.expr),
                  locals |-> t.scope])

\* A literal tested against the type of its first object only.
visit_literal_first_type(m, q, locals) ==
    LET hint_childs == get_hint_pep_args(m.hint_curr)
        t == add_func_scope_types({TypeOf(hint_childs[1])}, locals)
        acc == LiteralChilds(m, 1,
                   [code |-> Format(PEP586_CODE_CHECK_HINT_PREFIX,
                        "{pith_curr_assign_expr}" :> m.pith_curr_assign_expr
                            @@ "{hint_child_types_expr}" :> t.expr),
                    locals |-> t.scope])
    IN  IF ~is_hint_pep586(m.hint_curr)
        THEN Out("BeartypeDecorHintPep586Exception", <<>>, q, locals, FALSE)
        ELSE Formatted(SliceTo(acc.code, LINE_RSTRIP_INDEX_OR)
                           \o PEP586_CODE_CHECK_HINT_SUFFIX,
                 "{indent_curr}" :> m.indent_curr, q, acc.locals, FALSE)

\* A literal: an isinstance() test against the types of its objects, then
\* the comparison of the pith with each object.
visit_literal(m, q, locals) ==
    LET hint_childs == get_hint_pep_args(m.hint_curr)
        t == add_func_scope_types(
                 {TypeOf(hint_childs[i]) : i \in 1..Len(hint_childs)}, locals)
        acc == LiteralChilds(m, 1,
                   [code |-> Format(PEP586_CODE_CHECK_HINT_PREFIX,
                        "{pith_curr_assign_expr}" :> m.pith_curr_assign_expr
                            @@ "{hint_child_types_expr}" :> t.expr),
                    locals |-> t.scope])
    IN  IF ~is_hint_pep586(m.hint_curr)
        THEN Out("BeartypeDecorHintPep586Exception", <<>>, q, locals, FALSE)
        ELSE Formatted(SliceTo(acc.code, LINE_RSTRIP_INDEX_OR)
                           \o PEP586_CODE_CHECK_HINT_SUFFIX,
                 "{indent_curr}" :> m.indent_curr, q, acc.locals, FALSE)

RECURSIVE GenericChilds(_, _, _)
\* The loop over the pseudo-superclasses of a generic, from that of 1-based
\* index i on: acc holds the code and the queue.
GenericChilds(m, i, acc) ==
    LET hint_childs == get_hint_pep_generic_bases_unerased(m.hint_curr)
        hint_child ==
            IF ~(is_hint_pep585_builtin(hint_childs[i])
                     /\ is_hint_pep_typing(hint_childs[i]))
            THEN get_hint_pep484_generic_base_erased_from_unerased(
                     hint_childs[i])
            ELSE hint_childs[i]
        q1 == enqueue_hint_child(acc.q, hint_child, m.pith_curr_assigned_expr,
                  m.indent_child)
    IN  IF i > Len(hint_childs) \/ acc.q.exc # "" THEN acc
        ELSE IF is_class(hint_childs[i]) \/ is_hint_ignorable(hint_child)
        THEN GenericChilds(m, i + 1, acc)
        ELSE GenericChilds(m, i + 1,
                 [code |-> acc.code \o Format(
                      PEP484_CODE_CHECK_HINT_GENERIC_CHILD,
                      "{hint_child_placeholder}" :> q1.placeholder),
                  q |-> q1])

\* A generic or protocol: an isinstance() test against its class, then the
\* check of each of its pseudo-superclasses that is no class.
visit_generic(m, q, locals) ==
    LET acc == GenericChilds(m, 1,
                   [code |-> PEP484_CODE_CHECK_HINT_GENERIC_PREFIX, q |-> q])
        t == add_func_scope_type(
                 get_hint_pep_generic_type_or_none(m.hint_curr), locals)
    IN  Formatted(SliceTo(acc.code, LINE_RSTRIP_INDEX_AND)
                      \o PEP484_CODE_CHECK_HINT_GENERIC_SUFFIX,
            "{indent_curr}" :> m.indent_curr
                @@ "{pith_curr_assign_expr}" :> m.pith_curr_assign_expr
                @@ "{hint_curr_expr}" :> t.expr,
            acc.q, t.scope, FALSE)

\* A forward reference whose classname is never added to the set.
visit_forwardref_unlisted(m, q, locals) ==
    LET classname == get_hint_forwardref_classname(m.hint_curr)
        qualified == "." \in Range(Chars(classname))
    IN  Formatted(PEP_CODE_CHECK_HINT_NONPEP_TYPE,
            "{pith_curr_expr}" :> m.pith_curr_expr
                @@ "{hint_curr_expr}" :>
                    (IF qualified THEN register_typistry_forwardref(classname)
                     ELSE PEP_CODE_HINT_FORWARDREF_UNQUALIFIED_PLACEHOLDER_PREFIX
                              \o <<classname>> \o
                          PEP_CODE_HINT_FORWARDREF_UNQUALIFIED_PLACEHOLDER_SUFFIX),
            q,
            IF qualified
            THEN locals \cup {[name |-> ARG_NAME_TYPISTRY,
                               types |-> {"typistry"}]}
            ELSE locals,
            FALSE)

\* A forward reference: a qualified classname is looked up in the registry,
\* which the scope binds; an unqualified one is added to the set and left
\* as a placeholder to the caller.
visit_forwardref(m, q, locals) ==
    LET classname == get_hint_forwardref_classname(m.hint_curr)
        qualified == "." \in Range(Chars(classname))
    IN  [visit_forwardref_unlisted(m, q, locals) EXCEPT
            !.refs = IF qualified THEN {} ELSE {classname}]

RECURSIVE AnnotatedChilds(_, _, _)
\* The loop over the objects annotating a metahint, from the object of
\* 1-based index i on: acc holds the code, the scope and the exception.
AnnotatedChilds(m, i, acc) ==
    LET metadata == get_hint_pep593_metadata(m.hint_curr)
    IN  IF i > Len(metadata) THEN acc
        ELSE IF ~is_subscripted_is(metadata[i])
        THEN [acc EXCEPT !.exc = "BeartypeDecorHintPep593Exception"]
        ELSE AnnotatedChilds(m, i + 1,
                 [code |-> acc.code \o Format(
                      PEP593_CODE_CHECK_HINT_SUBSCRIPTEDIS_CHILD,
                      "{indent_curr}" :> m.indent_curr
                          @@ "{hint_child_expr}" :>
                              Format(is_valid_code(metadata[i]),
                                  "{indent}" :> m.indent_child
                                      @@ "{obj}" :> m.pith_curr_assigned_expr)),
                  locals |-> acc.locals \cup is_valid_code_locals(metadata[i]),
                  exc |-> ""])

\* A visit that stops at the first object that is no validator rather than
\* raising.
visit_annotated_lenient(m, q, locals) ==
    LET q1 == enqueue_hint_child(q, get_hint_pep593_metahint(m.hint_curr),
                  m.pith_curr_assign_expr, m.indent_child)
        acc == AnnotatedChilds(m, 1,
                   [code |-> Format(PEP593_CODE_CHECK_HINT_SUBSCRIPTEDIS_PREFIX,
                        "{indent_curr}" :> m.indent_curr
                            @@ "{hint_child_placeholder}" :> q1.placeholder),
                    locals |-> locals, exc |-> ""])
    IN  Out("",
            SliceTo(acc.code, LINE_RSTRIP_INDEX_AND) \o Format(
                PEP593_CODE_CHECK_HINT_SUBSCRIPTEDIS_SUFFIX,
                "{indent_curr}" :> m.indent_curr),
            q1, acc.locals, FALSE)

\* A visit that binds the callable of every validator to one name.
visit_annotated_shadowing(m, q, locals) ==
    LET out == visit_annotated_lenient(m, q, locals)
    IN  [out EXCEPT !.locals =
            {IF b.name[1] = VALIDATOR_NAME_PREFIX
             THEN [b EXCEPT !.name = <<VALIDATOR_NAME_PREFIX, "0">>] ELSE b :
                 b \in out.locals}]

\* A metahint annotated by beartype validators: the hint annotated is
\* enqueued with the assignment expression of the current pith, then every
\* validator is tested.
visit_annotated(m, q, locals) ==
    LET q1 == enqueue_hint_child(q, get_hint_pep593_metahint(m.hint_curr),
                  m.pith_curr_assign_expr, m.indent_child)
        acc == AnnotatedChilds(m, 1,
                   [code |-> Format(PEP593_CODE_CHECK_HINT_SUBSCRIPTEDIS_PREFIX,
                        "{indent_curr}" :> m.indent_curr
                            @@ "{hint_child_placeholder}" :> q1.placeholder),
                    locals |-> locals, exc |-> ""])
    IN  IF acc.exc # "" THEN Out(acc.exc, <<>>, q1, acc.locals, FALSE)
        ELSE Out("",
                 SliceTo(acc.code, LINE_RSTRIP_INDEX_AND) \o Format(
                     PEP593_CODE_CHECK_HINT_SUBSCRIPTEDIS_SUFFIX,
                     "{indent_curr}" :> m.indent_curr),
                 q1, acc.locals, FALSE)

\* A PEP-compliant hint beartype does not support, one that is ignorable
\* and fails the assertion that it was ignored, or one no branch handles.
visit_pep_unsupported(m, q, locals) ==
    Out(IF m.hint_curr.k # "unsupported" /\ is_hint_ignorable(m.hint_curr)
        THEN "AssertionError"
        ELSE "BeartypeDecorHintPepUnsupportedException",
        <<>>, q, locals, FALSE)

\* An object that is not PEP-compliant, taken for a class.
visit_nonpep_as_class(m, q, locals) == visit_class(m, q, locals)

\* An object that is neither PEP-compliant nor a class.
visit_nonpep_nonclass(m, q, locals) ==
    Out("BeartypeDecorHintPepException", <<>>, q, locals, FALSE)

(***************************************************************************)
(* The values checked.  A value is a record: t the name of its class,      *)
(* items its items if it is a list or a tuple.  Integers and booleans, the *)
(* values of subexpressions, hold their value as their only item.          *)
(***************************************************************************)
Value(t, items) == [t |-> t, items |-> items]

\* The classes an object of class t is an instance of: G subclasses list, H
\* subclasses B, bool subclasses int.
Mro(t) ==
    CASE t = "G" -> {"G", "list"} [] t = "H" -> {"H", "B"}
      [] t = "bool" -> {"bool", "int"} [] OTHER -> {t}

\* isinstance(v, cls).
IsInstance(v, cls) == cls \in Mro(v.t)

IntValue(n) == Value("int", <<n>>)

BoolValue(b) == Value("bool", <<b>>)

\* The object that subscripts a literal, as a value.
ObjectValue(obj) ==
    CASE obj.n = "1" -> IntValue(1)
      [] obj.n = "2" -> IntValue(2)
      [] obj.n \in {"True", "False"} -> BoolValue(obj.n = "True")
      [] OTHER -> Value("str", <<obj.n>>)

\* int(v) of an integer or a boolean.
Num(v) == IF v.t = "bool" THEN (IF v.items[1] THEN 1 ELSE 0) ELSE v.items[1]

\* v == w: numbers are equal by value, other objects by type and content.
Equal(v, w) ==
    IF IsInstance(v, "int") /\ IsInstance(w, "int") THEN Num(v) = Num(w)
    ELSE v.t = w.t /\ v.items = w.items

\* bool(v).
Truthy(v) ==
    CASE v.t = "bool" -> v.items[1]
      [] v.t = "int" -> v.items[1] # 0
      [] v.t = "str" -> v.items[1] # ""
      [] IsInstance(v, "list") \/ IsInstance(v, "tuple") -> v.items # <<>>
      [] OTHER -> TRUE

(***************************************************************************)
(* Python's parser, for the expressions the snippets are made of.  A       *)
(* parse yields ok, the position p after the expression and its tree t.    *)
(***************************************************************************)
Tok(s, p) == IF p <= Len(s) THEN s[p] ELSE "EOF"

Fail == [ok |-> FALSE, p |-> 0, t |-> <<>>]

Ok(p, t) == [ok |-> TRUE, p |-> p, t |-> t]

RECURSIVE DigitsEnd(_, _)
\* The position after the decimal digits that start at position p.
DigitsEnd(s, p) == IF Tok(s, p) \in DigitSet THEN DigitsEnd(s, p + 1) ELSE p

RECURSIVE NumVal(_, _, _)
\* int() of the decimal digits at positions p..(q - 1).
NumVal(s, p, q) ==
    IF q <= p THEN 0 ELSE 10 * NumVal(s, p, q - 1) + DigitVal(s[q - 1])

RECURSIVE NameEnd(_, _)
\* The position after the name of a scope parameter that starts at p.
NameEnd(s, p) ==
    IF \E i \in 1..Len(ClassNames) : Tok(s, p) = ClassNames[i]
    THEN NameEnd(s, p + 1) ELSE p

\* How tightly the binary operators bind: or_test, and_test, (not_test,)
\* comparison, term.
Binds(tok) ==
    CASE tok = "or" -> 1 [] tok = "and" -> 2 [] tok = "==" -> 4
      [] tok = "%" -> 5 [] OTHER -> 0

\* The tree of the binary operator written tok.
OpOf(tok) ==
    CASE tok = "or" -> "or" [] tok = "and" -> "and" [] tok = "==" -> "eq"
      [] OTHER -> "mod"

\* not_test binds between and_test and comparison.
NotBinds == Binds("==") - 1

RECURSIVE ParseExpr(_, _, _)
RECURSIVE Climb(_, _, _)
RECURSIVE Trailers(_, _)

\* The parse at position p of an expression whose operators bind at least
\* as tightly as m; m = 0 asks for a namedexpr_test, NAME ':=' test | test.
ParseExpr(s, p, m) ==
    LET tok == Tok(s, p)
        q == DigitsEnd(s, p + 1)
        is_pith == tok = PEP_CODE_PITH_NAME_PREFIX /\ q > p + 1
    IN  IF m = 0 /\ is_pith /\ Tok(s, q) = ":="
        THEN LET r == ParseExpr(s, q + 1, 1)
             IN  IF r.ok
                 THEN Ok(r.p, [op |-> "assign", name |-> NumVal(s, p + 1, q),
                               e |-> r.t])
                 ELSE Fail
        ELSE IF tok = "not"
        THEN LET r == ParseExpr(s, p + 1, NotBinds)
             IN  IF m <= NotBinds /\ r.ok
                 THEN Climb(s, Ok(r.p, [op |-> "not", e |-> r.t]), m)
                 ELSE Fail
        ELSE IF tok \in {"(", "len(", "isinstance("}
        THEN LET r == ParseExpr(s, p + 1, 0)
                 e == IF r.ok THEN NameEnd(s, r.p + 2) ELSE 0
             IN  IF ~r.ok THEN Fail
                 ELSE IF tok = "(" /\ Tok(s, r.p) = ")"
                 THEN Climb(s, Trailers(s, Ok(r.p + 1, r.t)), m)
                 ELSE IF tok = "len(" /\ Tok(s, r.p) = ")"
                 THEN Climb(s, Trailers(s,
                          Ok(r.p + 1, [op |-> "len", e |-> r.t])), m)
                 ELSE IF /\ tok = "isinstance("
                         /\ Tok(s, r.p) = ","
                         /\ Tok(s, r.p + 1) \in {"__beartypistry", "${FORWARDREF:"}
                         /\ Tok(s, r.p + 2 + (IF Tok(s, r.p + 2) = "[" THEN 2
                                               ELSE 1))
                                \in {"]", "]?"}
                         /\ Tok(s, r.p + 3 + (IF Tok(s, r.p + 2) = "[" THEN 2
                                               ELSE 1)) = ")"
                 THEN LET n == r.p + 2 + (IF Tok(s, r.p + 2) = "[" THEN 1 ELSE 0)
                      IN  Climb(s, Trailers(s,
                              Ok(n + 3, [op |-> "isinstance_ref", e |-> r.t,
                                         name |-> Tok(s, n),
                                         via |-> Tok(s, r.p + 1)])), m)
                 ELSE IF /\ tok = "isinstance("
                         /\ Tok(s, r.p) = ","
                         /\ Tok(s, r.p + 1)
                                \in {"__beartype_type_", "__beartype_tuple_"}
                         /\ Tok(s, e) = ")"
                 THEN Climb(s, Trailers(s,
                          Ok(e + 1, [op |-> "isinstance", e |-> r.t,
                                     name |-> SubSeq(s, r.p + 1, e - 1)])), m)
                 ELSE Fail
        ELSE IF is_pith
        THEN Climb(s, Trailers(s,
                 Ok(q, [op |-> "pith", name |-> NumVal(s, p + 1, q)])), m)
        ELSE IF tok = VALIDATOR_NAME_PREFIX /\ q > p + 1 /\ Tok(s, q) = "("
        THEN LET r == ParseExpr(s, q + 1, 0)
             IN  IF r.ok /\ Tok(s, r.p) = ")"
                 THEN Climb(s, Trailers(s,
                          Ok(r.p + 1, [op |-> "call", e |-> r.t,
                                       name |-> SubSeq(s, p, q - 1)])), m)
                 ELSE Fail
        ELSE IF tok = "__beartype_object_"
        THEN Climb(s, Trailers(s,
                 Ok(p + 2, [op |-> "attr", name |-> SubSeq(s, p, p + 1)])), m)
        ELSE IF tok = "__beartype_random_int"
        THEN Climb(s, Trailers(s, Ok(p + 1, [op |-> "random_int"])), m)
        ELSE IF tok \in DigitSet
        THEN Climb(s, Trailers(s,
                 Ok(DigitsEnd(s, p),
                    [op |-> "number",
                     name |-> NumVal(s, p, DigitsEnd(s, p))])), m)
        ELSE Fail

\* The parse of the binary operators that follow the parse l of a left
\* operand and bind at least as tightly as m.
Climb(s, l, m) ==
    LET tok == Tok(s, l.p)
    IN  IF l.ok /\ Binds(tok) > 0 /\ Binds(tok) >= m
        THEN LET r == ParseExpr(s, l.p + 1, Binds(tok) + 1)
             IN  IF r.ok
                 THEN Climb(s,
                          Ok(r.p, [op |-> OpOf(tok), l |-> l.t, r |-> r.t]), m)
                 ELSE Fail
        ELSE l

\* The parse of the subscriptions '[' test ']' that follow the parse l of
\* an atom.
Trailers(s, l) ==
    IF l.ok /\ Tok(s, l.p) = "["
    THEN LET r == ParseExpr(s, l.p + 1, 1)
         IN  IF r.ok /\ Tok(s, r.p) = "]"
             THEN Trailers(s,
                      Ok(r.p + 1, [op |-> "index", l |-> l.t, r |-> r.t]))
             ELSE Fail
    ELSE l

(***************************************************************************)
(* Python's evaluation of a tree.  c holds the scope and the random        *)
(* integer, env the local variables (the piths, by number).  The result    *)
(* holds the value v, the local variables after the evaluation and err,    *)
(* the name of the exception raised if any.                                *)
(***************************************************************************)
Val(v, env) == [v |-> v, env |-> env, err |-> ""]

Err(name, env) == [v |-> BoolValue(FALSE), env |-> env, err |-> name]

\* The classes the scope binds to a name, none if it binds none.
Types(scope, name) == UNION {b.types : b \in {x \in scope : x.name = name}}

\* What the callable of the validator named n returns for the value v.
IsValid(n, v) == IF n = "1" THEN v.items # <<>> ELSE Len(v.items) < 2

RECURSIVE Ev(_, _, _)
Ev(t, env, c) ==
    CASE t.op = "assign" ->
           LET r == Ev(t.e, env, c)
           IN  IF r.err # "" THEN r ELSE Val(r.v, (t.name :> r.v) @@ r.env)
      [] t.op = "or" ->
           LET l == Ev(t.l, env, c)
           IN  IF l.err # "" \/ Truthy(l.v) THEN l ELSE Ev(t.r, l.env, c)
      [] t.op = "and" ->
           LET l == Ev(t.l, env, c)
           IN  IF l.err # "" \/ ~Truthy(l.v) THEN l ELSE Ev(t.r, l.env, c)
      [] t.op = "not" ->
           LET r == Ev(t.e, env, c)
           IN  IF r.err # "" THEN r ELSE Val(BoolValue(~Truthy(r.v)), r.env)
      [] t.op \in {"eq", "mod", "index"} ->
           LET l == Ev(t.l, env, c)
               r == Ev(t.r, l.env, c)
           IN  IF l.err # "" THEN l
               ELSE IF r.err # "" THEN r
               ELSE IF t.op = "eq"
               THEN Val(BoolValue(Equal(l.v, r.v)), r.env)
               ELSE IF t.op = "mod"
               THEN IF l.v.t # "int" \/ r.v.t # "int"
                    THEN Err("TypeError", r.env)
                    ELSE IF r.v.items[1] = 0
                    THEN Err("ZeroDivisionError", r.env)
                    ELSE Val(IntValue(l.v.items[1] % r.v.items[1]), r.env)
               ELSE IF \/ ~(IsInstance(l.v, "list") \/ IsInstance(l.v, "tuple"))
                       \/ r.v.t # "int"
               THEN Err("TypeError", r.env)
               ELSE IF r.v.items[1] >= Len(l.v.items)
               THEN Err("IndexError", r.env)
               ELSE Val(l.v.items[r.v.items[1] + 1], r.env)
      [] t.op = "len" ->
           LET r == Ev(t.e, env, c)
           IN  IF r.err # "" THEN r
               ELSE IF ~(IsInstance(r.v, "list") \/ IsInstance(r.v, "tuple"))
               THEN Err("TypeError", r.env)
               ELSE Val(IntValue(Len(r.v.items)), r.env)
      [] t.op = "isinstance" ->
           LET r == Ev(t.e, env, c)
           IN  IF r.err # "" THEN r
               ELSE IF \A b \in c.scope : b.name # t.name
               THEN Err("NameError", r.env)
               ELSE Val(BoolValue(\E cls \in Types(c.scope, t.name) :
                                      IsInstance(r.v, cls)), r.env)
      [] t.op = "isinstance_ref" ->
           LET r == Ev(t.e, env, c)
           IN  IF r.err # "" THEN r
               ELSE IF /\ <<t.via>> = ARG_NAME_TYPISTRY
                       /\ \A b \in c.scope : b.name # ARG_NAME_TYPISTRY
               THEN Err("NameError", r.env)
               ELSE Val(BoolValue(IsInstance(r.v, ClassOf(t.name))), r.env)
      [] t.op = "attr" ->
           IF \A b \in c.scope : b.name # t.name THEN Err("NameError", env)
           ELSE Val(ObjectValue(
                        (CHOOSE b \in c.scope : b.name = t.name).value), env)
      [] t.op = "call" ->
           LET r == Ev(t.e, env, c)
           IN  IF r.err # "" THEN r
               ELSE IF \A b \in c.scope : b.name # t.name
               THEN Err("NameError", r.env)
               ELSE Val(BoolValue(IsValid(t.name[2], r.v)), r.env)
      [] t.op = "pith" ->
           IF t.name \in DOMAIN env THEN Val(env[t.name], env)
           ELSE Err("NameError", env)
      [] t.op = "random_int" -> Val(IntValue(c.random_int), env)
      [] t.op = "number" -> Val(IntValue(t.name), env)

\* The code without its line breaks and indentation.
Joined(code) == SelectSeq(code, LAMBDA tok : tok \notin {"NL", "    "})

\* The outcome of checking value v with random integer r by the code under
\* the scope: "pass" if the condition of the if statement is false, "fail"
\* if it is true and the violation is raised, else the exception raised.
Check(code, scope, v, r) ==
    LET s == Joined(code)
        parse == ParseExpr(s, 2, 0)
    IN  IF ~(Tok(s, 1) = "if" /\ parse.ok /\ Tok(s, parse.p) = ":")
        THEN "SyntaxError"
        ELSE LET res == Ev(parse.t, 0 :> v, [scope |-> scope, random_int |-> r])
             IN  IF res.err # "" THEN res.err
                 ELSE IF Truthy(res.v) THEN "fail" ELSE "pass"

\* The values checked: plain objects, lists and tuples of plain objects,
\* and lists and tuples of lists.
x == Value("X", <<>>)

y == Value("Y", <<>>)

d == Value("dict", <<>>)

SeqsUpTo(S, n) == UNION {[1..k -> S] : k \in 0..n}

FlatValues ==
    { Value(t, items) : t \in {"list", "tuple"},
                        items \in SeqsUpTo({x, y}, MaxSeqLen) }

InnerValues ==
    { x, d, Value("list", <<>>), Value("list", <<x>>), Value("list", <<y>>),
      Value("list", <<x, y>>), Value("tuple", <<x>>) }

NestedValues ==
    { Value(t, items) : t \in {"list", "tuple"},
                        items \in [1..1 -> InnerValues] \cup
                            [1..2 -> {x, Value("list", <<x>>),
                                      Value("list", <<y>>)}] }

none == Value("NoneType", <<>>)

\* Instances of the generics G and H.
GenericValues ==
    { Value("G", <<>>), Value("G", <<x>>), Value("G", <<y>>),
      Value("G", <<x, y>>), Value("G", <<Value("list", <<x>>)>>),
      Value("H", <<>>), Value("list", <<Value("G", <<x>>)>>),
      Value("list", <<Value("G", <<y>>)>>), Value("list", <<Value("H", <<>>)>>) }

\* Integers, booleans, strings and lists of one of them.
LiteralValues ==
    { IntValue(1), IntValue(2), BoolValue(TRUE), BoolValue(FALSE),
      Value("str", <<"a">>), Value("list", <<IntValue(1)>>),
      Value("list", <<IntValue(2)>>), Value("list", <<Value("str", <<"a">>)>>),
      Value("tuple", <<BoolValue(TRUE)>>) }

Values ==
    {x, y, d, none} \cup FlatValues \cup NestedValues \cup GenericValues
        \cup LiteralValues

(***************************************************************************)
(* BeartypeConf: Python objects are written [t |-> type, v |-> repr]; a    *)
(* configuration is identified by its 1-based index among the objects      *)
(* instantiated.                                                           *)
(***************************************************************************)
Py(t, v) == [t |-> t, v |-> v]

PyTrue == Py("bool", "True")

PyFalse == Py("bool", "False")

PyNone == Py("NoneType", "None")

PyOne == Py("int", "1")

PyZero == Py("int", "0")

PyStr == Py("str", "'x'")

ARG_VALUE_UNPASSED == Py("object", "ARG_VALUE_UNPASSED")

BEARTYPE_HINT_OVERRIDES_EMPTY == Py("BeartypeHintOverrides", "{}")

StrategyO1 == Py("BeartypeStrategy", "O1")

StrategyOn == Py("BeartypeStrategy", "On")

VerbosityDefault == Py("BeartypeViolationVerbosity", "DEFAULT")

BeartypeCallHintParamViolation == Py("type", "BeartypeCallHintParamViolation")

BeartypeCallHintReturnViolation ==
    Py("type", "BeartypeCallHintReturnViolation")

\* _BeartypeConfReduceDecoratorExceptionToWarningDefault, the default of
\* warning_cls_on_decorator_exception, and two other classes.
WarningDefault ==
    Py("type", "_BeartypeConfReduceDecoratorExceptionToWarningDefault")

UserWarning == Py("type", "UserWarning")

IntType == Py("type", "int")

\* The classes a class is a subclass of, itself left out.
Bases(cls) ==
    CASE cls \in {"BeartypeCallHintParamViolation",
                  "BeartypeCallHintReturnViolation"} -> {"Exception"}
      [] cls \in {"UserWarning",
                  "_BeartypeConfReduceDecoratorExceptionToWarningDefault"} ->
             {"Warning", "Exception"}
      [] OTHER -> {}

\* is_type_subclass(): whether the object is a class and a subclass of base.
is_type_subclass(obj, base) == obj.t = "type" /\ base \in Bases(obj.v)

\* The parameters of BeartypeConf.__new__, in the order of conf_args, and
\* their defaults.
ParamNames ==
    <<"claw_is_pep526", "hint_overrides", "is_color", "is_debug",
      "is_pep484_tower", "strategy", "violation_param_type",
      "violation_return_type", "violation_verbosity",
      "warning_cls_on_decorator_exception">>

ParamDefaults ==
    [claw_is_pep526 |-> PyTrue,
     hint_overrides |-> BEARTYPE_HINT_OVERRIDES_EMPTY,
     is_color |-> ARG_VALUE_UNPASSED,
     is_debug |-> PyFalse,
     is_pep484_tower |-> PyFalse,
     strategy |-> StrategyO1,
     violation_param_type |-> BeartypeCallHintParamViolation,
     violation_return_type |-> BeartypeCallHintReturnViolation,
     violation_verbosity |-> VerbosityDefault,
     warning_cls_on_decorator_exception |-> WarningDefault]

\* get_is_color(): an is_color that was not passed is None; the environment
\* variable BEARTYPE_IS_COLOR is not set.
get_is_color(is_color) ==
    IF is_color = ARG_VALUE_UNPASSED THEN PyNone ELSE is_color

\* int(obj) of a boolean or an integer.
PyNum(obj) == IF obj.v \in {"True", "1"} THEN 1 ELSE 0

\* obj1 == obj2 in Python: booleans and integers are equal by value, the
\* other objects modelled are equal when they are the same object.
PyEq(obj1, obj2) ==
    IF obj1.t \in {"bool", "int"} /\ obj2.t \in {"bool", "int"}
    THEN PyNum(obj1) = PyNum(obj2)
    ELSE obj1 = obj2

\* hash(obj): equal objects have equal hashes.
PyHash(obj) ==
    IF obj.t \in {"bool", "int"} THEN Py("int", IF PyNum(obj) = 1 THEN "1" ELSE "0")
    ELSE obj

\* tuple1 == tuple2 and hash(tuple) in Python.
PyTupleEq(tuple1, tuple2) ==
    /\ Len(tuple1) = Len(tuple2)
    /\ \A i \in 1..Len(tuple1) : PyEq(tuple1[i], tuple2[i])

PyTupleHash(tuple1) == [i \in 1..Len(tuple1) |-> PyHash(tuple1[i])]

\* The tuple conf_args of the parameters kw.
ConfArgs(kw) ==
    [i \in 1..Len(ParamNames) |->
        IF ParamNames[i] = "is_color" THEN get_is_color(kw.is_color)
        ELSE kw[ParamNames[i]]]

\* conf_args in _beartype_conf_args_to_conf: the 1-based indices of the
\* items of the dictionary whose key is equal to conf_args.
ConfCached(cache, conf_args) ==
    {i \in 1..Len(cache) : PyTupleEq(cache[i].key, conf_args)}

\* The chain of tests validating the parameters: the exception raised, ""
\* if none.
ConfValidated(kw) ==
    LET is_color == get_is_color(kw.is_color)
        warning_cls == kw.warning_cls_on_decorator_exception
    IN  IF \/ kw.claw_is_pep526.t # "bool"
           \/ kw.hint_overrides.t # "BeartypeHintOverrides"
           \/ is_color.t \notin {"NoneType", "bool"}
           \/ kw.is_debug.t # "bool"
           \/ kw.is_pep484_tower.t # "bool"
           \/ kw.strategy.t # "BeartypeStrategy"
           \/ ~is_type_subclass(kw.violation_param_type, "Exception")
           \/ ~is_type_subclass(kw.violation_return_type, "Exception")
           \/ kw.violation_verbosity.t # "BeartypeViolationVerbosity"
           \/ ~(warning_cls = PyNone
                    \/ is_type_subclass(warning_cls, "Warning"))
        THEN "BeartypeConfParamException"
        ELSE ""

\* The configuration that __new__ instantiates from the parameters kw.
ConfInstance(kw) ==
    LET is_color == get_is_color(kw.is_color)
        is_set == kw.warning_cls_on_decorator_exception # WarningDefault
        warning_cls ==
            IF is_set THEN kw.warning_cls_on_decorator_exception ELSE PyNone
    IN  [_is_warning_cls_on_decorator_exception_set |-> is_set,
         _conf_args |-> ConfArgs(kw),
         _conf_kwargs |->
             [kw EXCEPT !.is_color = is_color,
                        !.warning_cls_on_decorator_exception = warning_cls]]

\* A dictionary that an assignment leaves as it is.
ConfCacheKept(cache, conf_args, conf) == cache

\* _beartype_conf_args_to_conf[conf_args] = self, of a key that the
\* dictionary does not hold.
ConfCacheSet(cache, conf_args, conf) ==
    Append(cache, [key |-> conf_args, conf |-> conf])

\* BeartypeConf.__new__(**kw): the exception raised if any, the
\* configuration returned if any, the dictionary and the configurations
\* instantiated, afterwards.
ConfNew(cache, instances, kw) ==
    LET conf_args == ConfArgs(kw)
        cached == ConfCached(cache, conf_args)
    IN  IF cached # {}
        THEN [exc |-> "", conf |-> cache[CHOOSE i \in cached : TRUE].conf,
              cache |-> cache, instances |-> instances]
        ELSE IF ConfValidated(kw) # ""
        THEN [exc |-> ConfValidated(kw), conf |-> 0,
              cache |-> cache, instances |-> instances]
        ELSE [exc |-> "", conf |-> Len(instances) + 1,
              cache |-> ConfCacheSet(cache, conf_args, Len(instances) + 1),
              instances |-> Append(instances, ConfInstance(kw))]

\* BeartypeConf.kwargs and the public properties of the parameters.
ConfKwargs(conf) == conf._conf_kwargs

\* BeartypeConf.__eq__(self, other): other is a configuration or an object
\* that is none.
ConfEq(self, other) ==
    IF "_conf_args" \in DOMAIN other
    THEN IF PyTupleEq(self._conf_args, other._conf_args)
         THEN "True" ELSE "False"
    ELSE "NotImplemented"

\* BeartypeConf.__hash__(self).
ConfHash(self) == PyTupleHash(self._conf_args)

(***************************************************************************)
(* BeartypeHintOverrides: text is a sequence of characters.                *)
(***************************************************************************)
\* The characters of the names of the classes and typing objects used.
NameChars(name) ==
    CASE name = "str" -> <<"s", "t", "r">>
      [] name = "int" -> <<"i", "n", "t">>
      [] name = "float" -> <<"f", "l", "o", "a", "t">>
      [] name = "list" -> <<"l", "i", "s", "t">>
      [] name = "List" -> <<"L", "i", "s", "t">>
      [] name = "Dict" -> <<"D", "i", "c", "t">>
      [] OTHER -> <<>>

\* A class, a builtin class subscripted (list[str]), a union of the new
\* style (int | float), and a typing object, subscripted or not
\* (typing.List, typing.Dict[str, int]).
OvClass(name) == Hint("cls", name, <<>>)

OvSubscripted(name, args) == Hint("pep585", name, args)

OvUnion(args) == Hint("pep604", "|", args)

OvTyping(name, args) == Hint("typing", name, args)

RECURSIVE OvJoin(_, _)
\* sep.join(texts).
OvJoin(texts, sep) ==
    IF texts = <<>> THEN <<>>
    ELSE IF Len(texts) = 1 THEN texts[1]
    ELSE texts[1] \o sep \o OvJoin(Tail(texts), sep)

RECURSIVE OvTypeRepr(_)
\* The representation of a hint as an argument of another hint: a class is
\* written by its name.
OvTypeRepr(hint) ==
    LET args == [i \in 1..Len(hint.a) |-> OvTypeRepr(hint.a[i])]
    IN  CASE hint.k = "cls" -> NameChars(hint.n)
          [] hint.k = "pep604" -> OvJoin(args, <<" ", "|", " ">>)
          [] hint.k = "pep585" ->
                 NameChars(hint.n) \o <<"[">> \o OvJoin(args, <<",", " ">>)
                     \o <<"]">>
          [] OTHER ->
                 <<"t", "y", "p", "i", "n", "g", ".">> \o NameChars(hint.n)
                     \o (IF hint.a = <<>> THEN <<>>
                         ELSE <<"[">> \o OvJoin(args, <<",", " ">>)
                                  \o <<"]">>)

\* repr(hint): a class is written <class 'name'>.
repr(hint) ==
    IF hint.k = "cls"
    THEN <<"<", "c", "l", "a", "s", "s", " ", "'">> \o NameChars(hint.n) \o <<"'", ">">>
    ELSE OvTypeRepr(hint)

\* The characters of words, as \w and \b of regular expressions know them.
WordChars ==
    {"a", "c", "d", "f", "g", "i", "l", "n", "o", "p", "r", "s", "t", "y",
     "D", "L"}

\* The characters special in regular expressions, among those used.
SpecialChars == {" ", "[", "]", "|", "."}

\* re.escape(text): a regular expression matching the text, one token per
\* character, the special characters being escaped.
re_escape(text) ==
    [i \in 1..Len(text) |->
        [op |-> IF text[i] \in SpecialChars THEN "escaped" ELSE "char",
         c |-> text[i]]]

\* The regular expression matching subscription-style recursion:
\* \[[^]]*\b{HINT_OVERRIDE_SRC_REPR}\b[^]]*\].
HINT_OVERRIDE_RECURSION_REGEX(HINT_OVERRIDE_SRC_REPR) ==
    <<[op |-> "escaped", c |-> "["], [op |-> "[^]]*", c |-> ""],
      [op |-> "\\b", c |-> ""]>>
        \o HINT_OVERRIDE_SRC_REPR
        \o <<[op |-> "\\b", c |-> ""], [op |-> "[^]]*", c |-> ""],
             [op |-> "escaped", c |-> "]"]>>

\* Whether position p of the text is a word boundary: one of the
\* characters before and at p is of words, the other is not.
WordBoundary(text, p) ==
    (p > 1 /\ text[p - 1] \in WordChars)
        # (p <= Len(text) /\ text[p] \in WordChars)

RECURSIVE re_match(_, _, _, _)
\* Whether the regular expression, from its token k on, matches the text
\* from position p on.
re_match(regex, k, text, p) ==
    IF k > Len(regex) THEN TRUE
    ELSE CASE regex[k].op = "[^]]*" ->
                  \E n \in 0..(Len(text) - p + 1) :
                      /\ \A j \in p..(p + n - 1) : text[j] # "]"
                      /\ re_match(regex, k + 1, text, p + n)
           [] regex[k].op = "\\b" ->
                  WordBoundary(text, p) /\ re_match(regex, k + 1, text, p)
           [] OTHER ->
                  /\ p <= Len(text)
                  /\ text[p] = regex[k].c
                  /\ re_match(regex, k + 1, text, p + 1)

\* re.search(regex, text) is not None.
re_search(regex, text) ==
    \E p \in 1..(Len(text) + 1) : re_match(regex, 1, text, p)

\* A search that never matches.
re_search_none(regex, text) == FALSE

\* Whether the override of the source hint by the target hint is found
\* recursive.
hint_override_recursion(hint_override_src, hint_override_trg) ==
    re_search(HINT_OVERRIDE_RECURSION_REGEX(re_escape(repr(hint_override_src))),
              repr(hint_override_trg))

RECURSIVE BeartypeHintOverridesInit(_, _)
\* BeartypeHintOverrides.__init__(): the loop over the items of the
\* dictionary, from the item of 1-based index i on; the exception raised,
\* "" if none.
BeartypeHintOverridesInit(items, i) ==
    IF i > Len(items) THEN ""
    ELSE IF hint_override_recursion(items[i][1], items[i][2])
    THEN "BeartypeHintOverridesException"
    ELSE BeartypeHintOverridesInit(items, i + 1)

(***************************************************************************)
(* The state of pep_code_check_hint.                                       *)
(***************************************************************************)
VARIABLES
    pc,                 \* "idle", "loop", "done" (returned) or "raised"
    hint_root,
    hints_meta,
    hints_meta_index_curr,
    hints_meta_index_last,
    hint_child_placeholder_id,
    pith_curr_assign_expr_name_counter,
    func_root_code,
    func_wrapper_code,
    func_curr_code,
    func_wrapper_locals,
    is_var_random_int_needed,
    hints_forwardref_class_basename,    \* {} stands for None: no set yet
    exception,          \* the exception raised, "" if none
    retval,             \* the tuple returned, None if none
    enqueued,           \* history: the metadata enqueued, in order
    visited,            \* history: the metadata the loop visited, in order
    dispatched,         \* history: the branch each visit took
    substituted,        \* history: occurrences replaced by each visit
    memo,               \* the tuple an earlier compilation returned
    pith,               \* the value last checked by the returned code
    random_int,         \* the random integer of that check
    outcome,            \* the outcome of that check
    pool_fixed_list,    \* the fixed lists released and not acquired since
    pool_set,           \* the sets released and not acquired since
    compilation,        \* the number of calls of the function so far
    hints_meta_writer,  \* history: the call that last assigned each item
    beartype_conf_args_to_conf, \* the dictionary of configurations
    conf_instances,     \* the configurations instantiated, in order
    conf_calls,         \* history: the calls of BeartypeConf and results
    conf_compared,      \* the last comparison of a configuration
    hint_overrides,     \* the items of the last BeartypeHintOverrides
    hint_overrides_exception,   \* the exception it raised, "" if none
    wrapper_func,       \* the callable decorated: its parameters and return
    wrapper_code,       \* the statements of the body of its wrapper function
    wrapper_pc,         \* the statement the call of the wrapper is at
    wrapper_args,       \* the positional arguments the wrapper is passed
    wrapper_kwargs,     \* the keyword arguments the wrapper is passed
    wrapper_locals,     \* the local variables of the call of the wrapper
    wrapper_iter,       \* the items the for loop has yet to iterate
    wrapper_checks,     \* the checks the call has run: pith name and value
    func_calls,         \* the calls of the decorated callable
    wrapper_outcome,    \* how the call ended and the value it returned
    func_wrapper_made,  \* what make_func_wrapper_code() returned, if called
    conf_lock,          \* whether _beartype_conf_lock is locked
    conf_threads        \* of each thread, where its call of BeartypeConf is

pepVars ==
    <<pc, hint_root, hints_meta, hints_meta_index_curr, hints_meta_index_last,
      hint_child_placeholder_id, pith_curr_assign_expr_name_counter,
      func_root_code, func_wrapper_code, func_curr_code, func_wrapper_locals,
      is_var_random_int_needed, hints_forwardref_class_basename, exception,
      retval, enqueued, visited, dispatched, substituted, memo, pith,
      random_int, outcome, pool_fixed_list, pool_set, compilation,
      hints_meta_writer>>

checkVars == <<pith, random_int, outcome>>

poolVars == <<pool_fixed_list, pool_set, compilation, hints_meta_writer>>

confVars ==
    <<beartype_conf_args_to_conf, conf_instances, conf_calls, conf_compared>>

\* The variables that pep_code_check_hint leaves alone.
overridesVars == <<hint_overrides, hint_overrides_exception>>

wrapVars ==
    <<wrapper_func, wrapper_code, wrapper_pc, wrapper_args, wrapper_kwargs,
      wrapper_locals, wrapper_iter, wrapper_checks, func_calls,
      wrapper_outcome>>

makeVars == <<func_wrapper_made>>

threadVars == <<conf_lock, conf_threads>>

otherVars == <<confVars, overridesVars, wrapVars, makeVars, threadVars>>

vars == <<pepVars, otherVars>>

\* The most threads that call BeartypeConf.
MaxThreads == 2

Threads == 1..MaxThreads

\* A thread that has not called BeartypeConf.
ThreadIdle ==
    [pc |-> "idle", kw |-> ParamDefaults, self |-> 0, conf |-> 0,
     exc |-> "", cached |-> FALSE, complete |-> FALSE]

\* The module confcls once imported: BEARTYPE_CONF_DEFAULT has been
\* instantiated.
ConfImported == ConfNew(<<>>, <<>>, ParamDefaults)

\* tuple(set): the items of the set, each once, in the order in which the
\* set iterates, which the hashes of the items decide.
tuple(set) ==
    {t \in [1..Cardinality(set) -> set] :
        \A i, j \in 1..Cardinality(set) : i # j => t[i] # t[j]}

\* FixedList(size): a new list of size items, all None.
FixedList(size) == [i \in 0..(size - 1) |-> None]

\* acquire_fixed_list(SIZE_BIG): the list released last if the pool holds
\* one, as it was released, else a new list.
acquire_fixed_list(size) ==
    IF pool_fixed_list = <<>>
    THEN [meta |-> FixedList(size), writer |-> [i \in 0..(size - 1) |-> 0]]
    ELSE pool_fixed_list[Len(pool_fixed_list)]

\* The pool less the k objects released last.
Popped(pool, k) ==
    SubSeq(pool, 1, IF Len(pool) > k THEN Len(pool) - k ELSE 0)

\* acquire_object_typed(set), called for the k-th time since the pool was
\* as it is: the k-th last set released, as it was released, else a new
\* set.
acquire_object_typed(pool, k) ==
    IF Len(pool) >= k THEN pool[Len(pool) - k + 1] ELSE {}

\* A set that clear() leaves as it is.
clear_kept(set) == set

\* set.clear().
clear(set) == {}

Init ==
    /\ pc = "idle"
    /\ hint_root = None
    /\ hints_meta = FixedList(SIZE_BIG)
    /\ hints_meta_index_curr = 0
    /\ hints_meta_index_last = -1
    /\ hint_child_placeholder_id = -1
    /\ pith_curr_assign_expr_name_counter = 0
    /\ func_root_code = <<>>
    /\ func_wrapper_code = <<>>
    /\ func_curr_code = <<>>
    /\ func_wrapper_locals = {}
    /\ is_var_random_int_needed = FALSE
    /\ hints_forwardref_class_basename = {}
    /\ exception = ""
    /\ retval = None
    /\ enqueued = <<>>
    /\ visited = <<>>
    /\ dispatched = <<>>
    /\ substituted = <<>>
    /\ memo = None
    /\ pith = None
    /\ random_int = 0
    /\ outcome = ""
    /\ pool_fixed_list = <<>>
    /\ pool_set = <<>>
    /\ compilation = 0
    /\ hints_meta_writer = [i \in 0..(SIZE_BIG - 1) |-> 0]
    /\ beartype_conf_args_to_conf = ConfImported.cache
    /\ conf_instances = ConfImported.instances
    /\ conf_calls = <<>>
    /\ conf_compared = None
    /\ hint_overrides = <<>>
    /\ hint_overrides_exception = ""
    /\ wrapper_func = None
    /\ wrapper_code = <<>>
    /\ wrapper_pc = 0
    /\ wrapper_args = <<>>
    /\ wrapper_kwargs = <<>>
    /\ wrapper_locals = <<>>
    /\ wrapper_iter = [active |-> FALSE, items |-> <<>>]
    /\ wrapper_checks = <<>>
    /\ func_calls = <<>>
    /\ wrapper_outcome = [how |-> "", value |-> Value("NoneType", <<>>)]
    /\ func_wrapper_made = None
    /\ conf_lock = FALSE
    /\ conf_threads = [t \in Threads |-> ThreadIdle]

\* The body of the function up to the loop: the locals are initialized and
\* the root hint is enqueued with the root pith.
Begin(hint) ==
    LET q == enqueue_hint_child(
                 [meta |-> acquire_fixed_list(SIZE_BIG).meta, last |-> -1,
                  id |-> -1, exc |-> "", placeholder |-> <<>>],
                 hint, PEP_CODE_PITH_ROOT_NAME, CODE_INDENT_2)
    IN  /\ pc' = "loop"
        /\ hint_root' = hint
        /\ hints_meta' = q.meta
        /\ hints_meta_index_curr' = 0
        /\ hints_meta_index_last' = q.last
        /\ hint_child_placeholder_id' = q.id
        /\ pith_curr_assign_expr_name_counter' = 0
        /\ func_root_code' = PEP_CODE_CHECK_HINT_ROOT_PREFIX \o q.placeholder
        /\ func_wrapper_code' = PEP_CODE_CHECK_HINT_ROOT_PREFIX \o q.placeholder
        /\ func_curr_code' = <<>>
        /\ func_wrapper_locals' = {}
        /\ is_var_random_int_needed' = FALSE
        /\ hints_forwardref_class_basename' = {}
        /\ exception' = ""
        /\ retval' = None
        /\ enqueued' = <<q.meta[0]>>
        /\ visited' = <<>>
        /\ dispatched' = <<>>
        /\ substituted' = <<>>
        /\ pool_fixed_list' = Popped(pool_fixed_list, 1)
        /\ compilation' = compilation + 1
        /\ hints_meta_writer' =
               [acquire_fixed_list(SIZE_BIG).writer EXCEPT
                    ![0] = compilation + 1]
        /\ UNCHANGED <<checkVars, pool_set, otherVars>>

\* pep_code_check_hint(hint) is called.
Call(hint) ==
    /\ pc = "idle"
    /\ Begin(hint)
    /\ UNCHANGED memo

\* The same root hint is compiled a second time, as by another process,
\* the tuple the first compilation returned being kept for comparison.
CallAgain ==
    /\ pc = "done"
    /\ memo = None
    /\ outcome = ""
    /\ Begin(hint_root)
    /\ memo' = retval

\* The most calls of the function that one behaviour of the pools follows.
MaxCompilations == 3

\* Root hints that between them take every branch of the loop, some of them
\* raising while hints are enqueued.
PoolHints ==
    { Unsupported, NoBranch, Bad, Tuple(<<X, Y>>),
      Union(<<X, List(Y), ListBare>>), Union(<<List(X), List(Y)>>),
      Union(<<List(Y), NoReturn>>), List(Union(<<X, Y>>)),
      Annotated(List(X), <<Is1>>), ForwardRef("X"),
      GenericHint("G", <<List(X)>>), Literal(<<Object("1")>>) }

\* pep_code_check_hint(hint) is called after an earlier call returned or
\* raised.
CallNext(hint) ==
    /\ pc \in {"done", "raised"}
    /\ compilation < MaxCompilations
    /\ Begin(hint)
    /\ UNCHANGED memo

\* The queue as the closure _enqueue_hint_child sees it.
Queue ==
    [meta |-> hints_meta, last |-> hints_meta_index_last,
     id |-> hint_child_placeholder_id, exc |-> "", placeholder |-> <<>>]

\* The frame of the hint the loop visits next.
Curr ==
    Frame(hints_meta[hints_meta_index_curr],
          pith_curr_assign_expr_name_counter)

\* The text up to the end of its first line that is not empty.
FirstLineEnd(text) ==
    LET ends == {i \in 2..Len(text) : text[i] = "NL" /\ text[i - 1] # "NL"}
    IN  IF ends = {} THEN Len(text)
        ELSE CHOOSE i \in ends : \A j \in ends : i <= j

\* A replacement that is confined to the first line of the code.
SubstitutedFirstLine(code, placeholder, curr_code) ==
    replace_str_substrs(SubSeq(code, 1, FirstLineEnd(code)), placeholder,
                        curr_code)
        \o SubSeq(code, FirstLineEnd(code) + 1, Len(code))

\* A replacement whose result is dropped.
SubstitutedDropped(code, placeholder, curr_code) == code

\* The code buffer after the placeholder of the current hint is replaced by
\* the code of that hint.
Substituted(code, placeholder, curr_code) ==
    replace_str_substrs(code, placeholder, curr_code)

\* The fixed list left as it is.
NotNullified(meta, curr) == meta

\* The fixed list after the metadata of the current hint is nullified.
Nullified(meta, curr) == [meta EXCEPT ![curr] = None]

\* The items of a fixed list at indices first..last, in order.
Slots(meta, first, last) == [i \in 1..(last - first + 1) |-> meta[first + i - 1]]

\* One iteration of the loop, whose branch yields out: either the branch
\* raises, or the code of the current hint replaces its placeholder, its
\* metadata is nullified and the loop moves on to the next hint.
Iterate(out, branch) ==
    /\ pc = "loop"
    /\ hints_meta_index_curr <= hints_meta_index_last
    /\ visited' = Append(visited, hints_meta[hints_meta_index_curr])
    /\ dispatched' = Append(dispatched, branch)
    /\ enqueued' = enqueued \o
           Slots(out.q.meta, hints_meta_index_last + 1,
                 IF out.q.exc = "" THEN out.q.last ELSE out.q.last - 1)
    /\ hints_meta_index_last' = out.q.last
    /\ hint_child_placeholder_id' = out.q.id
    /\ pith_curr_assign_expr_name_counter' = Curr.counter
    /\ func_wrapper_locals' = out.locals
    /\ is_var_random_int_needed' = (is_var_random_int_needed \/ out.rand)
    /\ hints_forwardref_class_basename' =
           hints_forwardref_class_basename \cup out.refs
    /\ IF out.exc # ""
       THEN /\ pc' = "raised"
            /\ exception' = out.exc
            /\ hints_meta' = out.q.meta
            /\ UNCHANGED <<hints_meta_index_curr, func_wrapper_code,
                           func_curr_code, substituted>>
       ELSE /\ pc' = "loop"
            /\ exception' = ""
            /\ func_curr_code' = out.code
            /\ func_wrapper_code' =
                   Substituted(func_wrapper_code, Curr.hint_curr_placeholder,
                               out.code)
            /\ substituted' = Append(substituted,
                   Count(func_wrapper_code, Curr.hint_curr_placeholder))
            /\ hints_meta' = Nullified(out.q.meta, hints_meta_index_curr)
            /\ hints_meta_index_curr' = hints_meta_index_curr + 1
    /\ hints_meta_writer' =
           [i \in DOMAIN hints_meta_writer |->
               IF i > hints_meta_index_last /\ i <= out.q.last
               THEN compilation ELSE hints_meta_writer[i]]
    /\ pool_set' =
           IF branch = "union"
           THEN Popped(pool_set, 2) \o out.sets
           ELSE pool_set
    /\ UNCHANGED <<hint_root, func_root_code, retval, memo, checkVars,
                   pool_fixed_list, compilation, otherVars>>

\* Whether the loop has a hint to visit.
Visiting == pc = "loop" /\ hints_meta_index_curr <= hints_meta_index_last

\* Whether the current hint takes the branch of shallow tests: it is its
\* own sign, or its sign is an origin type supported only shallowly.
IsShallow(hint) ==
    \/ hint.k \in {"bare", "noreturn"}
    \/ /\ get_hint_pep_sign(hint) \in HINT_PEP_SIGNS_TYPE_ORIGIN_STDLIB
       /\ get_hint_pep_sign(hint) \notin HINT_PEP_SIGNS_SUPPORTED_DEEP

\* Whether the current hint takes the branch of standard sequences.
IsSequence(hint) ==
    \/ get_hint_pep_sign(hint) \in HINT_PEP_SIGNS_SEQUENCE_STANDARD
    \/ /\ get_hint_pep_sign(hint) \in HINT_PEP_SIGNS_TUPLE
       /\ Len(get_hint_pep_args(hint)) = 2
       /\ get_hint_pep_args(hint)[2] = Ellipsis

\* Whether the current hint is PEP-compliant, supported and, as asserted,
\* not ignorable.
IsSupportedPep(hint) ==
    is_hint_pep(hint) /\ hint.k # "unsupported" /\ ~is_hint_ignorable(hint)

\* Whether the current hint takes a branch after those of unions, shallow
\* tests, sequences and tuples.
IsOther(hint) ==
    /\ IsSupportedPep(hint)
    /\ get_hint_pep_sign(hint) \notin HINT_PEP_SIGNS_UNION
    /\ ~IsShallow(hint)
    /\ ~IsSequence(hint)
    /\ get_hint_pep_sign(hint) \notin HINT_PEP_SIGNS_TUPLE

(***************************************************************************)
(* What a hint asks of a value, whatever code checks it: the items of a    *)
(* sequence are sampled with the random integer r.                         *)
(***************************************************************************)
RECURSIVE Satisfies(_, _, _)
Satisfies(v, hint, r) ==
    CASE is_hint_ignorable(hint) -> TRUE
      [] hint.k = "none" -> v.t = "NoneType"
      [] hint.k = "newtype" -> Satisfies(v, hint.a[1], r)
      [] hint.k = "iogeneric" ->
           Satisfies(v, get_hint_pep544_io_protocol_from_generic(hint), r)
      [] hint.k = "forwardref" -> IsInstance(v, ClassOf(hint.n))
      [] hint.k = "literal" ->
           /\ \E i \in 1..Len(hint.a) : IsInstance(v, TypeOf(hint.a[i]))
           /\ \E i \in 1..Len(hint.a) : Equal(v, ObjectValue(hint.a[i]))
      [] hint.k = "generic" ->
           /\ IsInstance(v, get_hint_pep_generic_type_or_none(hint))
           /\ \A i \in 1..Len(hint.a) :
                  is_class(hint.a[i]) \/ Satisfies(v, hint.a[i], r)
      [] hint.k = "annotated" /\ ~is_hint_pep593_beartype(hint) ->
           Satisfies(v, hint.a[1], r)
      [] hint.k = "annotated" ->
           /\ Satisfies(v, hint.a[1], r)
           /\ \A i \in 2..Len(hint.a) :
                  is_subscripted_is(hint.a[i]) => IsValid(hint.a[i].n, v)
      [] hint.k = "union" ->
           \E i \in 1..Len(hint.a) : Satisfies(v, hint.a[i], r)
      [] hint.k = "list" \/ (hint.k = "tuple" /\ IsSequence(hint)) ->
           /\ IsInstance(v, hint.n)
           /\ \/ v.items = <<>>
              \/ Satisfies(v.items[(r % Len(v.items)) + 1], hint.a[1], r)
      [] hint.k = "tuple" ->
           /\ IsInstance(v, hint.n)
           /\ Len(v.items) = Len(hint.a)
           /\ \A i \in 1..Len(hint.a) : Satisfies(v.items[i], hint.a[i], r)
      [] hint.k \in {"cls", "bare", "shallow"} -> IsInstance(v, hint.n)
      [] OTHER -> FALSE

\* die_if_hint_pep_unsupported() raises.
VisitUnsupported ==
    /\ Visiting
    /\ is_hint_pep(Curr.hint_curr)
    /\ ~IsSupportedPep(Curr.hint_curr)
    /\ Iterate(visit_pep_unsupported(Curr, Queue, func_wrapper_locals),
               "unsupported")

VisitUnion ==
    /\ Visiting
    /\ IsSupportedPep(Curr.hint_curr)
    /\ get_hint_pep_sign(Curr.hint_curr) \in HINT_PEP_SIGNS_UNION
    /\ LET hint_childs_nonpep ==
               clear(acquire_object_typed(pool_set, 1))
                   \cup hint_childs_nonpep_of(Curr.hint_curr)
           hint_childs_pep ==
               clear(acquire_object_typed(pool_set, 2))
                   \cup hint_childs_pep_of(Curr.hint_curr)
       IN  \E order \in IterationOrders(hint_childs_pep) :
               LET out == visit_union(Curr, Queue, func_wrapper_locals,
                              hint_childs_nonpep, order)
               IN  Iterate([out EXCEPT !.sets =
                               IF out.exc = ""
                               THEN <<hint_childs_nonpep, hint_childs_pep>>
                               ELSE <<>>],
                           "union")

VisitShallow ==
    /\ Visiting
    /\ IsSupportedPep(Curr.hint_curr)
    /\ get_hint_pep_sign(Curr.hint_curr) \notin HINT_PEP_SIGNS_UNION
    /\ IsShallow(Curr.hint_curr)
    /\ Iterate(visit_shallow(Curr, Queue, func_wrapper_locals),
               "shallow")

VisitSequence ==
    /\ Visiting
    /\ IsSupportedPep(Curr.hint_curr)
    /\ get_hint_pep_sign(Curr.hint_curr) \notin HINT_PEP_SIGNS_UNION
    /\ ~IsShallow(Curr.hint_curr)
    /\ IsSequence(Curr.hint_curr)
    /\ Iterate(visit_sequence(Curr, Queue, func_wrapper_locals),
               "sequence")

\* A fixed-length tuple branch tested before the branch of sequences.
VisitTupleFixedFirst ==
    /\ Visiting
    /\ IsSupportedPep(Curr.hint_curr)
    /\ get_hint_pep_sign(Curr.hint_curr) \notin HINT_PEP_SIGNS_UNION
    /\ ~IsShallow(Curr.hint_curr)
    /\ get_hint_pep_sign(Curr.hint_curr) \in HINT_PEP_SIGNS_TUPLE
    /\ Iterate(visit_tuple_fixed(Curr, Queue, func_wrapper_locals), "tuple")

VisitTupleFixed ==
    /\ Visiting
    /\ IsSupportedPep(Curr.hint_curr)
    /\ get_hint_pep_sign(Curr.hint_curr) \notin HINT_PEP_SIGNS_UNION
    /\ ~IsShallow(Curr.hint_curr)
    /\ ~IsSequence(Curr.hint_curr)
    /\ get_hint_pep_sign(Curr.hint_curr) \in HINT_PEP_SIGNS_TUPLE
    /\ Iterate(visit_tuple_fixed(Curr, Queue, func_wrapper_locals),
               "tuple")

VisitForwardRef ==
    /\ Visiting
    /\ IsOther(Curr.hint_curr)
    /\ get_hint_pep_sign(Curr.hint_curr) = HINT_PEP484_TYPE_FORWARDREF
    /\ Iterate(visit_forwardref(Curr, Queue, func_wrapper_locals),
               "forwardref")

VisitGeneric ==
    /\ Visiting
    /\ IsOther(Curr.hint_curr)
    /\ get_hint_pep_sign(Curr.hint_curr) = Generic
    /\ Iterate(visit_generic(Curr, Queue, func_wrapper_locals),
               "generic")

VisitLiteral ==
    /\ Visiting
    /\ IsOther(Curr.hint_curr)
    /\ get_hint_pep_sign(Curr.hint_curr) = HINT_PEP586_SIGN_LITERAL
    /\ Iterate(visit_literal(Curr, Queue, func_wrapper_locals),
               "literal")

VisitAnnotated ==
    /\ Visiting
    /\ IsOther(Curr.hint_curr)
    /\ get_hint_pep_sign(Curr.hint_curr) = HINT_PEP593_SIGN_ANNOTATED
    /\ Iterate(visit_annotated(Curr, Queue, func_wrapper_locals),
               "annotated")

\* The sign of the current hint matches no branch.
VisitNoBranch ==
    /\ Visiting
    /\ IsOther(Curr.hint_curr)
    /\ get_hint_pep_sign(Curr.hint_curr) \notin
           {HINT_PEP593_SIGN_ANNOTATED, HINT_PEP484_TYPE_FORWARDREF, Generic,
            HINT_PEP586_SIGN_LITERAL}
    /\ Iterate(visit_pep_unsupported(Curr, Queue, func_wrapper_locals), "none")

VisitClass ==
    /\ Visiting
    /\ ~is_hint_pep(Curr.hint_curr)
    /\ is_class(Curr.hint_curr)
    /\ Iterate(visit_class(Curr, Queue, func_wrapper_locals),
               "class")

VisitNonPepNonClass ==
    /\ Visiting
    /\ ~is_hint_pep(Curr.hint_curr)
    /\ ~is_class(Curr.hint_curr)
    /\ Iterate(visit_nonpep_nonclass(Curr, Queue, func_wrapper_locals),
               "nonclass")

\* The name the scope binds to random.getrandbits.
ARG_NAME_GETRANDBITS == <<"__beartype_getrandbits">>

\* A return of the code as it was before the loop, suffixed.
ReturnRootCode ==
    /\ pc = "loop"
    /\ hints_meta_index_curr > hints_meta_index_last
    /\ IF func_wrapper_code = func_root_code
       THEN /\ pc' = "raised"
            /\ exception' = "BeartypeDecorHintPepException"
            /\ UNCHANGED <<func_wrapper_code, func_wrapper_locals, retval>>
       ELSE /\ pc' = "done"
            /\ exception' = ""
            /\ func_wrapper_locals' =
                   IF is_var_random_int_needed
                   THEN func_wrapper_locals \cup
                            {[name |-> ARG_NAME_GETRANDBITS,
                              types |-> {"getrandbits"}]}
                   ELSE func_wrapper_locals
            /\ func_wrapper_code' = func_root_code \o Format(
                   PEP_CODE_CHECK_HINT_ROOT_SUFFIX,
                   "{random_int_if_any}" :>
                       (IF is_var_random_int_needed
                        THEN PEP_CODE_CHECK_HINT_ROOT_SUFFIX_RANDOM_INT
                        ELSE <<>>))
            /\ \E hints_forwardref \in tuple(hints_forwardref_class_basename) :
                   retval' = <<func_wrapper_code', func_wrapper_locals',
                               hints_forwardref>>
    /\ UNCHANGED <<hint_root, hints_meta, hints_meta_index_curr,
                   hints_meta_index_last, hint_child_placeholder_id,
                   pith_curr_assign_expr_name_counter, func_root_code,
                   func_curr_code, is_var_random_int_needed,
                   hints_forwardref_class_basename, enqueued, visited,
                   dispatched, substituted, memo, checkVars, pool_set,
                   compilation, hints_meta_writer, otherVars>>
    /\ pool_fixed_list' = Append(pool_fixed_list,
           [meta |-> hints_meta, writer |-> hints_meta_writer])

\* The code after the loop: the fixed list is released; the function raises
\* if the loop left the code as it was, else returns the code suffixed, the
\* scope and the forward references.
Return ==
    /\ pc = "loop"
    /\ hints_meta_index_curr > hints_meta_index_last
    /\ IF func_wrapper_code = func_root_code
       THEN /\ pc' = "raised"
            /\ exception' = "BeartypeDecorHintPepException"
            /\ UNCHANGED <<func_wrapper_code, func_wrapper_locals, retval>>
       ELSE /\ pc' = "done"
            /\ exception' = ""
            /\ func_wrapper_locals' =
                   IF is_var_random_int_needed
                   THEN func_wrapper_locals \cup
                            {[name |-> ARG_NAME_GETRANDBITS,
                              types |-> {"getrandbits"}]}
                   ELSE func_wrapper_locals
            /\ func_wrapper_code' = func_wrapper_code \o Format(
                   PEP_CODE_CHECK_HINT_ROOT_SUFFIX,
                   "{random_int_if_any}" :>
                       (IF is_var_random_int_needed
                        THEN PEP_CODE_CHECK_HINT_ROOT_SUFFIX_RANDOM_INT
                        ELSE <<>>))
            /\ \E hints_forwardref \in tuple(hints_forwardref_class_basename) :
                   retval' = <<func_wrapper_code', func_wrapper_locals',
                               hints_forwardref>>
    /\ UNCHANGED <<hint_root, hints_meta, hints_meta_index_curr,
                   hints_meta_index_last, hint_child_placeholder_id,
                   pith_curr_assign_expr_name_counter, func_root_code,
                   func_curr_code, is_var_random_int_needed,
                   hints_forwardref_class_basename, enqueued, visited,
                   dispatched, substituted, memo, checkVars, pool_set,
                   compilation, hints_meta_writer, otherVars>>
    /\ pool_fixed_list' = Append(pool_fixed_list,
           [meta |-> hints_meta, writer |-> hints_meta_writer])

\* The wrapper function checks a value with the code and scope returned.
\* Checks are independent of one another: one check per compilation is
\* followed.
RunCheck(v, r) ==
    /\ pc = "done"
    /\ memo = None
    /\ outcome = ""
    /\ pith' = v
    /\ random_int' = r
    /\ outcome' = Check(retval[1], retval[2], v, r)
    /\ UNCHANGED <<pc, hint_root, hints_meta, hints_meta_index_curr,
                   hints_meta_index_last, hint_child_placeholder_id,
                   pith_curr_assign_expr_name_counter, func_root_code,
                   func_wrapper_code, func_curr_code, func_wrapper_locals,
                   is_var_random_int_needed, hints_forwardref_class_basename,
                   exception, retval, enqueued, visited, dispatched,
                   substituted, memo, poolVars, otherVars>>

Visit ==
    \/ VisitUnsupported
    \/ VisitUnion
    \/ VisitShallow
    \/ VisitSequence
    \/ VisitTupleFixed
    \/ VisitAnnotated
    \/ VisitForwardRef
    \/ VisitGeneric
    \/ VisitLiteral
    \/ VisitNoBranch
    \/ VisitClass
    \/ VisitNonPepNonClass

Next ==
    \/ \E hint \in RootHints : Call(hint)
    \/ CallAgain
    \/ Visit
    \/ Return
    \/ \E v \in Values, r \in 0..MaxRandom : RunCheck(v, r)

Spec == Init /\ [][Next]_vars

\* Calls of the function one after another, sharing the pools.
NextPool ==
    \/ \E hint \in PoolHints : Call(hint)
    \/ \E hint \in PoolHints : CallNext(hint)
    \/ Visit
    \/ Return

SpecPool == Init /\ [][NextPool]_vars

(***************************************************************************)
(* make_func_wrapper_code(): the code of the wrapper function made of the  *)
(* expression and scope that make_check_expr() returns.                    *)
(***************************************************************************)
CODE_HINT_ROOT_PREFIX == <<"NL", "    ", "    ", "if", "not">>

CODE_HINT_ROOT_SUFFIX ==
    <<":", "NL", "    ", "    ", "    ",
      "raise", "__beartype_get_violation(", "NL",
      "    ", "    ", "    ", "    ", "func=", "__beartype_func", ",", "NL",
      "    ", "    ", "    ", "    ", "pith_name=", "$PITH_ROOT_NAME", ",",
      "NL",
      "    ", "    ", "    ", "    ", "pith_value=", "__beartype_pith_", "0",
      ",", "{arg_cls_stack}", "{arg_random_int}", "NL",
      "    ", "    ", "    ", ")", "NL">>

CODE_HINT_ROOT_SUFFIX_CLS_STACK ==
    <<"NL", "    ", "    ", "    ", "    ",
      "cls_stack=", "__beartype_cls_stack", ",">>

CODE_HINT_ROOT_SUFFIX_RANDOM_INT ==
    <<"NL", "    ", "    ", "    ", "    ",
      "random_int=", "__beartype_random_int", ",">>

\* Whether the scope binds the name.
InScope(name, scope) == \E b \in scope : b.name = name

\* make_check_expr(): the expression, scope and forward references of the
\* hint, as pep_code_check_hint() returned them around the expression.
make_check_expr(ret) ==
    LET suffix == Format(PEP_CODE_CHECK_HINT_ROOT_SUFFIX,
                      "{random_int_if_any}" :>
                          (IF InScope(ARG_NAME_GETRANDBITS, ret[2])
                           THEN PEP_CODE_CHECK_HINT_ROOT_SUFFIX_RANDOM_INT
                           ELSE <<>>))
    IN  <<SubSeq(ret[1], Len(PEP_CODE_CHECK_HINT_ROOT_PREFIX) + 1,
                 Len(ret[1]) - Len(suffix)),
          ret[2], ret[3]>>

\* A factory that never passes the random integer.
make_func_wrapper_code_no_random_int(check_expr, cls_stack) ==
    <<CODE_HINT_ROOT_PREFIX \o check_expr[1]
          \o Format(CODE_HINT_ROOT_SUFFIX,
                 "{arg_cls_stack}" :>
                     (IF cls_stack # <<>> THEN CODE_HINT_ROOT_SUFFIX_CLS_STACK
                      ELSE <<>>)
                     @@ "{arg_random_int}" :> <<>>),
      check_expr[2], check_expr[3]>>

\* make_func_wrapper_code(): check_expr is what make_check_expr() returned,
\* cls_stack the type stack, empty if None.
make_func_wrapper_code(check_expr, cls_stack) ==
    LET func_wrapper_code_expr == check_expr[1]
        func_wrapper_scope == check_expr[2]
        hint_forwardrefs_class_basename == check_expr[3]
        arg_cls_stack ==
            IF cls_stack # <<>> THEN CODE_HINT_ROOT_SUFFIX_CLS_STACK ELSE <<>>
        arg_random_int ==
            IF InScope(ARG_NAME_GETRANDBITS, func_wrapper_scope)
            THEN CODE_HINT_ROOT_SUFFIX_RANDOM_INT ELSE <<>>
        func_wrapper_code_suffix ==
            Format(CODE_HINT_ROOT_SUFFIX,
                "{arg_cls_stack}" :> arg_cls_stack
                    @@ "{arg_random_int}" :> arg_random_int)
    IN  <<CODE_HINT_ROOT_PREFIX \o func_wrapper_code_expr
              \o func_wrapper_code_suffix,
          func_wrapper_scope, hint_forwardrefs_class_basename>>

\* The type stacks passed: None and the tuple of one class.
TypeStacks == {<<>>, <<"C">>}

\* make_func_wrapper_code() is called for the hint compiled.
MakeFuncWrapperCode(cls_stack) ==
    /\ pc = "done"
    /\ func_wrapper_made = None
    /\ func_wrapper_made' =
           make_func_wrapper_code(make_check_expr(retval), cls_stack)
    /\ UNCHANGED <<pepVars, confVars, overridesVars, wrapVars, threadVars>>

NextMake ==
    \/ \E hint \in RootHints : Call(hint)
    \/ Visit
    \/ Return
    \/ \E cls_stack \in TypeStacks : MakeFuncWrapperCode(cls_stack)

SpecMake == Init /\ [][NextMake]_vars

\* The root hints that fill the fixed list and that exceed it by one item:
\* lists nested so that the root and its descendants are SIZE_BIG hints,
\* and SIZE_BIG + 1 hints.
DeepHints == {Nested(SIZE_BIG - 1), Nested(SIZE_BIG)}

\* Calls of the function with the root hints, the deep ones among them.
NextDeep ==
    \/ \E hint \in RootHints \cup DeepHints : Call(hint)
    \/ Visit
    \/ Return

SpecDeep == Init /\ [][NextDeep]_vars

\* Whether the loop has been left and the code after it is to be executed.
Returning == pc = "loop" /\ hints_meta_index_curr > hints_meta_index_last

\* The function once called runs on: an iteration of the loop that can be
\* executed is, and so is the code after the loop.  This is weak fairness
\* of Visit and of Return, the states in which each is enabled being
\* written out: the chain of branches is total, so that Visit is enabled
\* wherever the loop has a hint to visit.
LoopFairness ==
    /\ []<>~Visiting \/ []<><<Visit>>_vars
    /\ []<>~Returning \/ []<><<Return>>_vars

SpecLoop == Init /\ [][NextDeep]_vars /\ LoopFairness

(***************************************************************************)
(* Calls of BeartypeConf, of its property kwargs and of its comparator.    *)
(***************************************************************************)
\* The most calls of BeartypeConf that one behaviour follows.
MaxConfCalls == 2

\* The parameters passed: the defaults, but for one parameter at most.
ConfInputs ==
    {ParamDefaults}
        \cup {[ParamDefaults EXCEPT !.claw_is_pep526 = v] :
                  v \in {PyFalse, PyOne}}
        \cup {[ParamDefaults EXCEPT !.is_color = v] :
                  v \in {PyNone, PyTrue, PyOne}}
        \cup {[ParamDefaults EXCEPT !.is_debug = v] :
                  v \in {PyTrue, PyOne, PyZero}}
        \cup {[ParamDefaults EXCEPT !.is_pep484_tower = v] :
                  v \in {PyTrue, PyOne}}
        \cup {[ParamDefaults EXCEPT !.strategy = v] :
                  v \in {StrategyOn, PyStr}}
        \cup {[ParamDefaults EXCEPT
                   !.warning_cls_on_decorator_exception = v] :
                  v \in {PyNone, UserWarning, IntType}}

\* BeartypeConf(**kw) is called, kw being the property kwargs of the
\* configuration of index of, if of is not 0.
ConfCalled(kw, of) ==
    LET r == ConfNew(beartype_conf_args_to_conf, conf_instances, kw)
    IN  /\ Len(conf_calls) < MaxConfCalls
        /\ beartype_conf_args_to_conf' = r.cache
        /\ conf_instances' = r.instances
        /\ conf_calls' = Append(conf_calls,
               [kw |-> kw, exc |-> r.exc, conf |-> r.conf, of |-> of])
        /\ conf_compared' = None
        /\ UNCHANGED <<pepVars, overridesVars, wrapVars, makeVars, threadVars>>

ConfCall(kw) == ConfCalled(kw, 0)

\* BeartypeConf(**conf.kwargs) is called.
ConfPermute(conf) == ConfCalled(ConfKwargs(conf_instances[conf]), conf)

\* self == other and the hashes of both are evaluated: other is a
\* configuration, or None if its index is 0.
ConfCompare(self, other) ==
    LET obj == IF other = 0 THEN PyNone ELSE conf_instances[other]
    IN  /\ conf_compared' =
               [self |-> self, other |-> other,
                eq |-> ConfEq(conf_instances[self], obj),
                hash_self |-> ConfHash(conf_instances[self]),
                hash_other |-> IF other = 0 THEN <<>> ELSE ConfHash(obj)]
        /\ conf_compared' # conf_compared
        /\ UNCHANGED <<pepVars, beartype_conf_args_to_conf, conf_instances,
                       conf_calls, overridesVars, wrapVars, makeVars, threadVars>>

NextConf ==
    \/ \E kw \in ConfInputs : ConfCall(kw)
    \/ \E conf \in 1..Len(conf_instances) : ConfPermute(conf)
    \/ \E self \in 1..Len(conf_instances),
           other \in 0..Len(conf_instances) : ConfCompare(self, other)

SpecConf == Init /\ [][NextConf]_vars

(***************************************************************************)
(* Threads calling BeartypeConf: each statement of __new__ is one step of  *)
(* the thread that executes it.                                            *)
(***************************************************************************)
\* A lock that any thread enters, whether locked or not.
Lock_unlocked(locked) == TRUE

\* with _beartype_conf_lock: a thread enters when the lock is not locked
\* and waits while it is.
Lock_acquire(locked) == ~locked

\* The parameters that the threads pass: equal ones, valid and not, ones
\* that the default configuration was made of, and others.
ThreadInputs ==
    {ParamDefaults,
     [ParamDefaults EXCEPT !.is_debug = PyTrue],
     [ParamDefaults EXCEPT !.is_debug = PyOne],
     [ParamDefaults EXCEPT !.is_color = PyNone],
     [ParamDefaults EXCEPT !.strategy = StrategyOn]}

\* The attributes named, of an object.
Attrs(obj, names) == [name \in names |-> obj[name]]

\* Whether _conf_args and _conf_kwargs of the configuration are set.
ConfComplete(conf) == {"_conf_args", "_conf_kwargs"} \subseteq DOMAIN conf

\* _beartype_conf_args_to_conf[conf_args] = self, of any key.
ConfCacheAssigned(cache, conf_args, conf) ==
    LET cached == ConfCached(cache, conf_args)
    IN  IF cached = {} THEN ConfCacheSet(cache, conf_args, conf)
        ELSE [i \in 1..Len(cache) |->
                 IF i \in cached THEN [key |-> cache[i].key, conf |-> conf]
                 ELSE cache[i]]

\* The thread calls BeartypeConf(**kw) and enters the lock.
ThreadEnter(t, kw) ==
    /\ conf_threads[t].pc = "idle"
    /\ Lock_acquire(conf_lock)
    /\ conf_lock' = TRUE
    /\ conf_threads' =
           [conf_threads EXCEPT ![t] = [@ EXCEPT !.pc = "lookup", !.kw = kw]]
    /\ UNCHANGED <<pepVars, confVars, overridesVars, wrapVars, makeVars>>

\* if conf_args in _beartype_conf_args_to_conf: return the configuration
\* cached, leaving the lock.
ThreadLookup(t) ==
    LET cached == ConfCached(beartype_conf_args_to_conf,
                      ConfArgs(conf_threads[t].kw))
        conf == beartype_conf_args_to_conf[CHOOSE i \in cached : TRUE].conf
    IN  /\ conf_threads[t].pc = "lookup"
        /\ IF cached # {}
           THEN /\ conf_threads' =
                       [conf_threads EXCEPT ![t] =
                           [@ EXCEPT !.pc = "returned", !.conf = conf,
                                     !.cached = TRUE,
                                     !.complete =
                                         ConfComplete(conf_instances[conf])]]
                /\ conf_lock' = FALSE
           ELSE /\ conf_threads' =
                       [conf_threads EXCEPT ![t] = [@ EXCEPT !.pc = "validate"]]
                /\ UNCHANGED conf_lock
        /\ UNCHANGED <<pepVars, confVars, overridesVars, wrapVars, makeVars>>

\* The chain of tests of the parameters: an exception leaves the lock.
ThreadValidate(t) ==
    LET exc == ConfValidated(conf_threads[t].kw)
    IN  /\ conf_threads[t].pc = "validate"
        /\ IF exc # ""
           THEN /\ conf_threads' =
                       [conf_threads EXCEPT ![t] =
                           [@ EXCEPT !.pc = "raised", !.exc = exc]]
                /\ conf_lock' = FALSE
           ELSE /\ conf_threads' =
                       [conf_threads EXCEPT ![t] = [@ EXCEPT !.pc = "create"]]
                /\ UNCHANGED conf_lock
        /\ UNCHANGED <<pepVars, confVars, overridesVars, wrapVars, makeVars>>

\* self = super().__new__(cls) and the parameters are classified.
ThreadCreate(t) ==
    /\ conf_threads[t].pc = "create"
    /\ conf_instances' =
           Append(conf_instances,
               Attrs(ConfInstance(conf_threads[t].kw),
                   {"_is_warning_cls_on_decorator_exception_set"}))
    /\ conf_threads' =
           [conf_threads EXCEPT ![t] =
               [@ EXCEPT !.pc = "insert", !.self = Len(conf_instances) + 1]]
    /\ UNCHANGED <<pepVars, beartype_conf_args_to_conf, conf_calls,
                   conf_compared, conf_lock, overridesVars, wrapVars,
                   makeVars>>

\* _beartype_conf_args_to_conf[conf_args] = self
ThreadInsert(t) ==
    /\ conf_threads[t].pc = "insert"
    /\ beartype_conf_args_to_conf' =
           ConfCacheAssigned(beartype_conf_args_to_conf,
               ConfArgs(conf_threads[t].kw), conf_threads[t].self)
    /\ conf_threads' =
           [conf_threads EXCEPT ![t] = [@ EXCEPT !.pc = "conf_args"]]
    /\ UNCHANGED <<pepVars, conf_instances, conf_calls, conf_compared,
                   conf_lock, overridesVars, wrapVars, makeVars>>

\* setattr(self, name, value): the configurations, the attribute of the
\* name being set to the value that __new__ gives it for the parameters kw.
ConfSetAttr(instances, self, name, kw) ==
    [instances EXCEPT ![self] =
        Attrs(ConfInstance(kw), DOMAIN instances[self] \cup {name})]

\* self._conf_args = conf_args
ThreadSetConfArgs(t) ==
    /\ conf_threads[t].pc = "conf_args"
    /\ conf_instances' =
           ConfSetAttr(conf_instances, conf_threads[t].self, "_conf_args",
               conf_threads[t].kw)
    /\ conf_threads' =
           [conf_threads EXCEPT ![t] = [@ EXCEPT !.pc = "conf_kwargs"]]
    /\ UNCHANGED <<pepVars, beartype_conf_args_to_conf, conf_calls,
                   conf_compared, conf_lock, overridesVars, wrapVars,
                   makeVars>>

\* self._conf_kwargs = dict(...)
ThreadSetConfKwargs(t) ==
    /\ conf_threads[t].pc = "conf_kwargs"
    /\ conf_instances' =
           ConfSetAttr(conf_instances, conf_threads[t].self, "_conf_kwargs",
               conf_threads[t].kw)
    /\ conf_threads' =
           [conf_threads EXCEPT ![t] = [@ EXCEPT !.pc = "return"]]
    /\ UNCHANGED <<pepVars, beartype_conf_args_to_conf, conf_calls,
                   conf_compared, conf_lock, overridesVars, wrapVars,
                   makeVars>>

\* The thread leaves the lock and returns self.
ThreadReturn(t) ==
    /\ conf_threads[t].pc = "return"
    /\ conf_lock' = FALSE
    /\ conf_threads' =
           [conf_threads EXCEPT ![t] =
               [@ EXCEPT !.pc = "returned",
                         !.conf = conf_threads[t].self]]
    /\ UNCHANGED <<pepVars, confVars, overridesVars, wrapVars, makeVars>>

NextThreads ==
    \/ \E t \in Threads, kw \in ThreadInputs : ThreadEnter(t, kw)
    \/ \E t \in Threads : ThreadLookup(t)
    \/ \E t \in Threads : ThreadValidate(t)
    \/ \E t \in Threads : ThreadCreate(t)
    \/ \E t \in Threads : ThreadInsert(t)
    \/ \E t \in Threads : ThreadSetConfArgs(t)
    \/ \E t \in Threads : ThreadSetConfKwargs(t)
    \/ \E t \in Threads : ThreadReturn(t)

SpecThreads == Init /\ [][NextThreads]_vars

(***************************************************************************)
(* Instantiations of BeartypeHintOverrides.                                *)
(***************************************************************************)
\* The most items of a dictionary of overrides.
MaxOverrides == 2

\* The source and target hints of overrides.
OverrideSources == {OvClass("str"), OvClass("float"), OvTyping("List", <<>>)}

OverrideTargets ==
    {OvClass("int"),
     OvUnion(<<OvClass("int"), OvClass("float")>>),
     OvSubscripted("list", <<OvClass("str")>>),
     OvSubscripted("list",
         <<OvUnion(<<OvClass("int"), OvClass("float")>>)>>),
     OvTyping("Dict", <<OvClass("str"), OvTyping("List", <<>>)>>)}

\* The items of the dictionaries instantiated: no source hint twice.
OverrideItems ==
    {items \in UNION {[1..n -> OverrideSources \X OverrideTargets] :
                         n \in 0..MaxOverrides} :
        \A i, j \in 1..Len(items) : items[i][1] = items[j][1] => i = j}

\* BeartypeHintOverrides(items) is instantiated.
OverridesNew(items) ==
    /\ hint_overrides' = items
    /\ hint_overrides_exception' = BeartypeHintOverridesInit(items, 1)
    /\ UNCHANGED <<pepVars, confVars, wrapVars, makeVars, threadVars>>

NextOverrides == \E items \in OverrideItems : OverridesNew(items)

SpecOverrides == Init /\ [][NextOverrides]_vars

(***************************************************************************)
(* The wrapper function.  Its body is a sequence of statements, each a     *)
(* record: its indentation level, what it does (op), the texts of its      *)
(* index and name operands, and for a type-check its code and scope.       *)
(***************************************************************************)
Stmt(indent, op, index, name) ==
    [indent |-> indent, op |-> op, index |-> index, name |-> name,
     code |-> <<>>, scope |-> {}]

\* The snippets localizing a parameter, by the kind of the parameter:
\*   pith = (args[{arg_index}] if __beartype_args_len > {arg_index} else
\*           kwargs.get({arg_name!r}, __beartypistry))
\*   if pith is not __beartypistry:
\* for a positional or keyword parameter,
\*   pith = kwargs.get({arg_name!r}, __beartypistry)
\*   if pith is not __beartypistry:
\* for a keyword-only parameter, and
\*   for pith in args[{arg_index!r}:]:
\* for a variadic positional parameter.
PARAM_KIND_TO_PEP_CODE_GET(kind) ==
    CASE kind = "POSITIONAL_OR_KEYWORD" ->
             <<Stmt(1, "pith = args[] if args_len > else kwargs.get()",
                    <<"{arg_index}">>, <<"{arg_name!r}">>),
               Stmt(1, "if pith is not __beartypistry:", <<>>, <<>>)>>
      [] kind = "KEYWORD_ONLY" ->
             <<Stmt(1, "pith = kwargs.get()", <<>>, <<"{arg_name!r}">>),
               Stmt(1, "if pith is not __beartypistry:", <<>>, <<>>)>>
      [] kind = "VAR_POSITIONAL" ->
             <<Stmt(1, "for pith in args[:]:", <<"{arg_index!r}">>, <<>>)>>

\* pith = __beartype_func(*args, **kwargs); if True:
PEP_CODE_CHECK_RETURN_PREFIX ==
    <<Stmt(1, "pith = __beartype_func(*args, **kwargs)", <<>>, <<>>),
      Stmt(1, "if True:", <<>>, <<>>)>>

\* return pith
PEP_CODE_CHECK_RETURN_SUFFIX == <<Stmt(1, "return pith", <<>>, <<>>)>>

\* A snippet for NoReturn that returns what the callable returned.
PEP484_CODE_RETURN_UNCHECKED ==
    <<Stmt(1, "pith = __beartype_func(*args, **kwargs)", <<>>, <<>>),
      Stmt(1, "return pith", <<>>, <<>>)>>

\* pith = __beartype_func(*args, **kwargs);
\* __beartype_raise_pep_call_exception(...)
PEP484_CODE_CHECK_NORETURN ==
    <<Stmt(1, "pith = __beartype_func(*args, **kwargs)", <<>>, <<>>),
      Stmt(1, "__beartype_raise_pep_call_exception()", <<>>,
           <<"$PITH_ROOT_NAME">>)>>

\* if not {hint_child_placeholder}:
\*     __beartype_raise_pep_call_exception(...)
PEP_CODE_CHECK_HINT_ROOT ==
    <<"NL", "    ", "    ", "if", "not", "{hint_child_placeholder}", ":", "NL",
      "    ", "    ", "    ", "__beartype_raise_pep_call_exception(", "NL",
      "    ", "    ", "    ", "    ", "func=", "__beartype_func", ",", "NL",
      "    ", "    ", "    ", "    ", "pith_name=", "$PITH_ROOT_NAME", ",",
      "NL",
      "    ", "    ", "    ", "    ", "pith_value=", "__beartype_pith_", "0",
      ",", "NL",
      "    ", "    ", "    ", ")", "NL">>

\* repr() of a string and of a natural number.
str_repr(text) == <<"'", text, "'">>

int_repr(n) == Str(n)

\* Whether the text is a string literal, and the string it evaluates to.
is_str_literal(text) == Len(text) = 3 /\ text[1] = "'" /\ text[3] = "'"

str_literal(text) == IF is_str_literal(text) THEN text[2] ELSE ""

\* The statements of a snippet formatted: the fields of their operands
\* replaced.
FormatStmts(stmts, kw) ==
    [i \in 1..Len(stmts) |->
        [stmts[i] EXCEPT !.index = Format(@, kw), !.name = Format(@, kw)]]

\* The indentation level of code: its indentations before its first word.
RECURSIVE IndentOf(_)
IndentOf(code) ==
    IF code = <<>> THEN 0
    ELSE IF Head(code) = "NL" THEN IndentOf(Tail(code))
    ELSE IF Head(code) = "    " THEN 1 + IndentOf(Tail(code))
    ELSE 0

\* The statement type-checking the root pith, of the name given, against
\* the class: the root snippet formatted with the test of the class, its
\* root pith name replaced.
CheckStmt(cls, pith_name) ==
    LET t == add_func_scope_type(cls, {})
        expr == Format(PEP_CODE_CHECK_HINT_NONPEP_TYPE,
                    "{pith_curr_expr}" :> PEP_CODE_PITH_ROOT_NAME
                        @@ "{hint_curr_expr}" :> t.expr)
        code == replace_str_substrs(
                    Format(PEP_CODE_CHECK_HINT_ROOT,
                           "{hint_child_placeholder}" :> expr),
                    <<"$PITH_ROOT_NAME">>, str_repr(pith_name))
    IN  [indent |-> IndentOf(code), op |-> "check", index |-> <<>>,
         name |-> str_repr(pith_name), code |-> code, scope |-> t.scope]

\* The code localizing and type-checking the parameter of the 0-based
\* index given, none if the parameter is not annotated.
pep_code_check_param(param, arg_index) ==
    IF param.hint = "" THEN <<>>
    ELSE FormatStmts(PARAM_KIND_TO_PEP_CODE_GET(param.kind),
             "{arg_index}" :> int_repr(arg_index)
                 @@ "{arg_index!r}" :> int_repr(arg_index)
                 @@ "{arg_name!r}" :> str_repr(param.name))
             \o <<CheckStmt(param.hint, param.name)>>

\* The code calling the decorated callable and type-checking what it
\* returns.
pep_code_check_return(hint) ==
    IF hint = "NoReturn"
    THEN FormatStmts(
             [i \in 1..Len(PEP484_CODE_CHECK_NORETURN) |->
                 [PEP484_CODE_CHECK_NORETURN[i] EXCEPT
                     !.name = replace_str_substrs(@, <<"$PITH_ROOT_NAME">>,
                                                  str_repr("return"))]],
             <<>>)
    ELSE PEP_CODE_CHECK_RETURN_PREFIX \o <<CheckStmt(hint, "return")>>
             \o PEP_CODE_CHECK_RETURN_SUFFIX

\* The body of the wrapper function of a callable: the number of
\* positional arguments localized, then the code of each parameter, then
\* that of the return.
WrapperCode(func) ==
    <<Stmt(1, "__beartype_args_len = len(args)", <<>>, <<>>)>>
        \o Flatten([i \in 1..Len(func.params) |->
                       pep_code_check_param(func.params[i], i - 1)])
        \o pep_code_check_return(func.ret)

\* args[index:].
args_all(args, index) == args

args_slice(args, index) == SubSeq(args, index + 1, Len(args))

\* The sentinel never passed: the beartypistry.
bear_typistry == Value("Beartypistry", <<>>)

\* The statement run after the block of the statement at at is skipped.
Skipped(code, at) ==
    LET after == {j \in (at + 1)..Len(code) :
                     code[j].indent <= code[at].indent}
    IN  IF after = {} THEN Len(code) + 1
        ELSE CHOOSE j \in after : \A k \in after : j <= k

\* The statement run after the statement at at: the head of the for loop
\* whose block ends with it, else the next one.
Succ(code, at) ==
    LET heads == {j \in 1..(at - 1) :
                     /\ code[j].op = "for pith in args[:]:"
                     /\ \A k \in (j + 1)..at :
                            code[k].indent > code[j].indent}
        head == CHOOSE j \in heads : \A k \in heads : k <= j
    IN  IF /\ heads # {}
           /\ \/ at + 1 > Len(code)
              \/ code[at + 1].indent <= code[head].indent
        THEN head ELSE at + 1

\* The callables decorated: the kind, name and class hint of each
\* parameter ("" if not annotated) and the class hint of the return.
Param(kind, name, hint) == [kind |-> kind, name |-> name, hint |-> hint]

Funcs ==
    { [params |-> <<Param("POSITIONAL_OR_KEYWORD", "a", "X"),
                    Param("POSITIONAL_OR_KEYWORD", "b", "Y")>>,
       ret |-> "X"],
      [params |-> <<Param("POSITIONAL_OR_KEYWORD", "a", ""),
                    Param("POSITIONAL_OR_KEYWORD", "b", "X"),
                    Param("KEYWORD_ONLY", "k", "Y")>>,
       ret |-> "Y"],
      [params |-> <<Param("POSITIONAL_OR_KEYWORD", "a", "X"),
                    Param("VAR_POSITIONAL", "b", "Y"),
                    Param("KEYWORD_ONLY", "k", "X")>>,
       ret |-> "X"],
      [params |-> <<Param("POSITIONAL_OR_KEYWORD", "a", "X")>>,
       ret |-> "NoReturn"] }

\* The most positional arguments passed.
MaxArgs == 2

\* The arguments passed and the values returned.
ArgValues == {x, y}

ArgNames == {"a", "b", "k"}

Kwargs == UNION {[names -> ArgValues] : names \in SUBSET ArgNames}

\* The outcome of a call that has not ended.
Running == [how |-> "", value |-> none]

\* The decorator makes the wrapper function of a callable.
Decorate(func) ==
    /\ wrapper_pc = 0
    /\ wrapper_func' = func
    /\ wrapper_code' = WrapperCode(func)
    /\ wrapper_args' = <<>>
    /\ wrapper_kwargs' = <<>>
    /\ wrapper_locals' = <<>>
    /\ wrapper_iter' = [active |-> FALSE, items |-> <<>>]
    /\ wrapper_checks' = <<>>
    /\ func_calls' = <<>>
    /\ wrapper_outcome' = Running
    /\ UNCHANGED <<wrapper_pc, pepVars, confVars, overridesVars, makeVars, threadVars>>

\* The wrapper function is called.  Calls are independent of one another:
\* one call per decoration is followed.
WrapperCall(args, kwargs) ==
    /\ wrapper_code # <<>>
    /\ wrapper_pc = 0
    /\ wrapper_outcome = Running
    /\ wrapper_args' = args
    /\ wrapper_kwargs' = kwargs
    /\ wrapper_pc' = 1
    /\ UNCHANGED <<wrapper_func, wrapper_code, wrapper_locals, wrapper_iter,
                   wrapper_checks, func_calls, wrapper_outcome, pepVars,
                   confVars, overridesVars, makeVars, threadVars>>

\* The call of the wrapper ends, as told.
WrapperEnds(how, value) ==
    /\ wrapper_outcome' = [how |-> how, value |-> value]
    /\ wrapper_pc' = 0

PITH == "__beartype_pith_0"

ARGS_LEN == "__beartype_args_len"

\* The local variables of the call, one assigned.
Assigned(name, value) ==
    [n \in DOMAIN wrapper_locals \cup {name} |->
        IF n = name THEN value ELSE wrapper_locals[n]]

\* kwargs.get(name, default).
kwargs_get(kwargs, name, default) ==
    IF name \in DOMAIN kwargs THEN kwargs[name] ELSE default

\* The wrapper runs its statement that calls the decorated callable, which
\* returns the result or raises an exception.
WrapperCallsFunc(result, raises) ==
    LET stmt == wrapper_code[wrapper_pc]
    IN  /\ wrapper_pc \in 1..Len(wrapper_code)
        /\ stmt.op = "pith = __beartype_func(*args, **kwargs)"
        /\ func_calls' =
               Append(func_calls,
                      [args |-> wrapper_args, kwargs |-> wrapper_kwargs,
                       result |-> result, raises |-> raises])
        /\ IF raises
           THEN WrapperEnds("Exception", none) /\ UNCHANGED wrapper_locals
           ELSE /\ wrapper_locals' = Assigned(PITH, result)
                /\ wrapper_pc' = Succ(wrapper_code, wrapper_pc)
                /\ UNCHANGED wrapper_outcome
        /\ UNCHANGED <<wrapper_func, wrapper_code, wrapper_args,
                       wrapper_kwargs, wrapper_iter, wrapper_checks, pepVars,
                       confVars, overridesVars, makeVars, threadVars>>

\* The wrapper runs any other statement.
WrapperStep ==
    LET stmt == wrapper_code[wrapper_pc]
        next == Succ(wrapper_code, wrapper_pc)
        skip == Skipped(wrapper_code, wrapper_pc)
        index == NumVal(stmt.index, 1, Len(stmt.index) + 1)
        name == str_literal(stmt.name)
        Goes(at) == wrapper_pc' = at /\ UNCHANGED wrapper_outcome
        items == IF wrapper_iter.active THEN wrapper_iter.items
                 ELSE args_slice(wrapper_args, index)
    IN  /\ wrapper_pc \in 1..Len(wrapper_code)
        /\ stmt.op # "pith = __beartype_func(*args, **kwargs)"
        /\ CASE stmt.op = "__beartype_args_len = len(args)" ->
                    /\ wrapper_locals' =
                           Assigned(ARGS_LEN, IntValue(Len(wrapper_args)))
                    /\ Goes(next)
                    /\ UNCHANGED <<wrapper_iter, wrapper_checks>>
             [] stmt.op = "pith = args[] if args_len > else kwargs.get()" ->
                    IF \/ ARGS_LEN \notin DOMAIN wrapper_locals
                       \/ ~is_str_literal(stmt.name)
                    THEN /\ WrapperEnds("NameError", none)
                         /\ UNCHANGED <<wrapper_locals, wrapper_iter,
                                        wrapper_checks>>
                    ELSE /\ wrapper_locals' =
                                Assigned(PITH,
                                    IF Num(wrapper_locals[ARGS_LEN]) > index
                                    THEN wrapper_args[index + 1]
                                    ELSE kwargs_get(wrapper_kwargs, name,
                                                    bear_typistry))
                         /\ Goes(next)
                         /\ UNCHANGED <<wrapper_iter, wrapper_checks>>
             [] stmt.op = "pith = kwargs.get()" ->
                    IF ~is_str_literal(stmt.name)
                    THEN /\ WrapperEnds("NameError", none)
                         /\ UNCHANGED <<wrapper_locals, wrapper_iter,
                                        wrapper_checks>>
                    ELSE /\ wrapper_locals' =
                                Assigned(PITH,
                                    kwargs_get(wrapper_kwargs, name,
                                               bear_typistry))
                         /\ Goes(next)
                         /\ UNCHANGED <<wrapper_iter, wrapper_checks>>
             [] stmt.op = "if pith is not __beartypistry:" ->
                    /\ Goes(IF wrapper_locals[PITH] # bear_typistry
                            THEN next ELSE skip)
                    /\ UNCHANGED <<wrapper_locals, wrapper_iter,
                                   wrapper_checks>>
             [] stmt.op = "for pith in args[:]:" ->
                    IF items = <<>>
                    THEN /\ wrapper_iter' = [active |-> FALSE, items |-> <<>>]
                         /\ Goes(skip)
                         /\ UNCHANGED <<wrapper_locals, wrapper_checks>>
                    ELSE /\ wrapper_iter' =
                                [active |-> TRUE, items |-> Tail(items)]
                         /\ wrapper_locals' = Assigned(PITH, Head(items))
                         /\ Goes(wrapper_pc + 1)
                         /\ UNCHANGED wrapper_checks
             [] stmt.op = "if True:" ->
                    /\ Goes(next)
                    /\ UNCHANGED <<wrapper_locals, wrapper_iter,
                                   wrapper_checks>>
             [] stmt.op = "check" ->
                    LET res == Check(stmt.code, stmt.scope,
                                     wrapper_locals[PITH], 0)
                    IN  /\ wrapper_checks' =
                               Append(wrapper_checks,
                                      [name |-> name,
                                       v |-> wrapper_locals[PITH],
                                       calls |-> Len(func_calls)])
                        /\ IF res = "pass" THEN Goes(next)
                           ELSE IF res = "fail"
                           THEN WrapperEnds("BeartypeCallHintViolation", none)
                           ELSE WrapperEnds(res, none)
                        /\ UNCHANGED <<wrapper_locals, wrapper_iter>>
             [] stmt.op = "__beartype_raise_pep_call_exception()" ->
                    /\ WrapperEnds("BeartypeCallHintViolation", none)
                    /\ UNCHANGED <<wrapper_locals, wrapper_iter,
                                   wrapper_checks>>
             [] stmt.op = "return pith" ->
                    /\ WrapperEnds("returned", wrapper_locals[PITH])
                    /\ UNCHANGED <<wrapper_locals, wrapper_iter,
                                   wrapper_checks>>
        /\ UNCHANGED <<wrapper_func, wrapper_code, wrapper_args,
                       wrapper_kwargs, func_calls, pepVars, confVars,
                       overridesVars, makeVars, threadVars>>

NextWrap ==
    \/ \E func \in Funcs : Decorate(func)
    \/ \E n \in 0..MaxArgs : \E args \in [1..n -> ArgValues] :
           \E kwargs \in Kwargs : WrapperCall(args, kwargs)
    \/ \E result \in ArgValues : \E raises \in BOOLEAN :
           WrapperCallsFunc(result, raises)
    \/ WrapperStep

SpecWrap == Init /\ [][NextWrap]_vars

(***************************************************************************)
(* The properties checked.                                                 *)
(***************************************************************************)
\* What the hint asks of the value last checked, as an outcome.
Expected == IF Satisfies(pith, hint_root, random_int) THEN "pass" ELSE "fail"

\* The metadata the loop visited last.
LastVisited == visited[Len(visited)]

\* C1: on every successful return, the code returned holds no placeholder
\* token, and in particular none of the placeholders that were minted.
C1_PlaceholderExhaustion ==
    pc = "done" =>
        /\ ~HasPlaceholder(retval[1])
        /\ \A id \in 0..hint_child_placeholder_id :
               ~Occurs(retval[1], Placeholder(id))

\* A successful return after four placeholders or more were minted.
C1_Witness ==
    /\ pc = "done"
    /\ hint_child_placeholder_id >= 3
    /\ ~HasPlaceholder(retval[1])

\* Whether the hint is one the loop must refuse: an object that is neither
\* PEP-compliant nor a class, or a PEP-compliant hint no branch handles.
Offending(hint) ==
    \/ ~is_hint_pep(hint) /\ ~is_class(hint)
    \/ /\ IsSupportedPep(hint)
       /\ get_hint_pep_sign(hint) \notin
              HINT_PEP_SIGNS_UNION \cup HINT_PEP_SIGNS_TUPLE
                  \cup HINT_PEP_SIGNS_SEQUENCE_STANDARD
                  \cup {HINT_PEP593_SIGN_ANNOTATED,
                        HINT_PEP484_TYPE_FORWARDREF, Generic,
                        HINT_PEP586_SIGN_LITERAL}
       /\ ~IsShallow(hint)

\* C2: when the loop visits an object that is neither PEP-compliant nor a
\* class, or a PEP-compliant hint whose sign no branch handles, the function
\* raises and returns no tuple, however many hints were expanded before.
C2_FatalOnUnsupported ==
    [][(Visiting /\ Offending(Curr.hint_curr)) =>
           /\ pc' = "raised"
           /\ retval' = None
           /\ exception' \in {"BeartypeDecorHintPepException",
                              "BeartypeDecorHintPepUnsupportedException"}]_vars

\* The function raised on an offending hint after two other hints of the
\* graph were expanded into the code.
C2_Witness ==
    /\ pc = "raised"
    /\ Offending(LastVisited[1])
    /\ hints_meta_index_curr >= 2
    /\ func_wrapper_code # func_root_code
    /\ retval = None

\* C3: two compilations of the same root hint return the same code and
\* equal scopes.
C3_Determinism ==
    (pc = "done" /\ memo # None) =>
        /\ retval[1] = memo[1]
        /\ retval[2] = memo[2]

RECURSIVE HasUnion(_)
\* Whether the graph of the hint holds a union.
HasUnion(hint) ==
    \/ get_hint_pep_sign(hint) \in HINT_PEP_SIGNS_UNION
    \/ \E i \in 1..Len(hint.a) : HasUnion(hint.a[i])

\* C4: the check generated for a union, nested or not, passes exactly the
\* values that satisfy one of its alternatives.
C4_UnionCompleteness ==
    (outcome # "" /\ HasUnion(hint_root)) => outcome = Expected

\* C5: compiling a fixed-length tuple hint yields a check, which passes
\* exactly the tuples of that length whose items satisfy the child hints
\* at their positions.
C5_FixedTupleExactness ==
    (pc \in {"done", "raised"} /\ hint_root \in FixedTuples) =>
        /\ pc = "done"
        /\ outcome # "" => outcome = Expected

\* C6: the check generated for a standard sequence or a variadic tuple
\* passes exactly the instances of the origin type that are empty or whose
\* item at index random_int % len satisfies the child hint.
C6_SequenceSampling ==
    (outcome # "" /\ IsSequence(hint_root)) =>
        outcome =
            IF /\ IsInstance(pith, get_hint_pep_stdlib_type(hint_root))
               /\ \/ pith.items = <<>>
                  \/ Satisfies(pith.items[(random_int % Len(pith.items)) + 1],
                               get_hint_pep_args(hint_root)[1], random_int)
            THEN "pass" ELSE "fail"

RECURSIVE Samples(_)
\* Whether the graph of the hint holds a standard sequence or a variadic
\* tuple whose child hint is not ignorable.
Samples(hint) ==
    \/ IsSequence(hint) /\ ~is_hint_ignorable(get_hint_pep_args(hint)[1])
    \/ \E i \in 1..Len(hint.a) : Samples(hint.a[i])

\* C7: for a root hint whose graph samples no sequence, the outcome of the
\* check of a value is the same for every random integer.
C7_SamplingConfined ==
    (outcome # "" /\ ~Samples(hint_root)) =>
        \A r \in 0..MaxRandom : Check(retval[1], retval[2], pith, r) = outcome

\* A list of two items passed the check of a sequence hint whose child hint
\* is ignorable, the random integer being the largest.
C7_Witness ==
    /\ outcome = "pass"
    /\ ~Samples(hint_root)
    /\ IsSequence(hint_root)
    /\ Len(pith.items) = 2
    /\ random_int = MaxRandom

\* Whether the hint reduces to a plain origin type without child hints: a
\* class, a hint that is its own sign, or a hint supported only shallowly;
\* NoReturn, which has no origin type, is none.
IsPlain(hint) ==
    \/ ~is_hint_pep(hint) /\ is_class(hint)
    \/ IsSupportedPep(hint)
           /\ get_hint_pep_sign(hint) \notin HINT_PEP_SIGNS_UNION
           /\ IsShallow(hint)
           /\ hint # NoReturn

\* Visiting a plain hint yields one isinstance() test of the pith against
\* its type, binds the type in the scope and enqueues no child hint.
C8_Visit ==
    (Visiting /\ IsPlain(Curr.hint_curr)) =>
        /\ pc' = "loop"
        /\ func_curr_code' =
               <<"isinstance(">> \o Curr.pith_curr_expr
                   \o <<",", "__beartype_type_", Curr.hint_curr.n, ")">>
        /\ [name |-> <<"__beartype_type_", Curr.hint_curr.n>>,
            types |-> {Curr.hint_curr.n}] \in func_wrapper_locals'
        /\ hints_meta_index_last' = hints_meta_index_last
        /\ enqueued' = enqueued

\* The check of a plain root hint passes exactly the instances of its type,
\* and so does the check of a plain child hint on the one item of a list.
C8_Check ==
    /\ (outcome # "" /\ IsPlain(hint_root)) =>
           outcome = IF IsInstance(pith, hint_root.n) THEN "pass" ELSE "fail"
    /\ (/\ outcome # ""
        /\ get_hint_pep_sign(hint_root) \in HINT_PEP_SIGNS_SEQUENCE_STANDARD
        /\ IsPlain(hint_root.a[1])
        /\ pith.t = "list"
        /\ Len(pith.items) = 1) =>
           outcome = IF IsInstance(pith.items[1], hint_root.a[1].n)
                     THEN "pass" ELSE "fail"

\* C8: a hint that reduces to a plain origin type T yields exactly one
\* isinstance(pith, T) test with T bound in the scope and enqueues no child
\* hint, and the check passes exactly the instances of T.
C8_ExactTypes == []C8_Check /\ [][C8_Visit]_vars

\* A class reached as the child hint of a list was visited, and the one
\* item of a list passed its check.
C8_Witness ==
    /\ outcome = "pass"
    /\ get_hint_pep_sign(hint_root) \in HINT_PEP_SIGNS_SEQUENCE_STANDARD
    /\ ~is_hint_pep(hint_root.a[1])
    /\ IsPlain(LastVisited[1])
    /\ Len(pith.items) = 1

\* C9: the loop visits the metadata in the order it was enqueued, the index
\* of the current hint counting the visits, and the placeholder of the hint
\* about to be visited occurs in the code.
C9_Fifo ==
    /\ Len(visited) <= Len(enqueued)
    /\ visited = SubSeq(enqueued, 1, Len(visited))
    /\ pc = "loop" => hints_meta_index_curr = Len(visited)
    /\ Visiting =>
           Occurs(func_wrapper_code, hints_meta[hints_meta_index_curr][2])

\* The loop is about to visit a fourth hint or a later one, others pending.
C9_Witness ==
    /\ Visiting
    /\ hints_meta_index_curr >= 3
    /\ hints_meta_index_last > hints_meta_index_curr
    /\ Occurs(func_wrapper_code, hints_meta[hints_meta_index_curr][2])

\* C10 as claimed: when a compilation ends, every metadata enqueued was
\* visited once and its slot is None.
C10_EveryItemVisited ==
    pc \in {"done", "raised"} =>
        /\ visited = enqueued
        /\ \A i \in 0..hints_meta_index_last : hints_meta[i] = None

\* C10: every metadata is visited at most once, in the order enqueued and
\* as it was enqueued; the slot of every visit that completed is None and
\* the slots of the pending metadata are as enqueued; on a successful
\* return every metadata was visited, and every placeholder minted was
\* replaced by exactly one substitution, where it occurred exactly once.
C10_WorkItemLifecycle ==
    /\ Len(visited) <= Len(enqueued)
    /\ visited = SubSeq(enqueued, 1, Len(visited))
    /\ \A i, j \in 1..Len(enqueued) : enqueued[i] = enqueued[j] => i = j
    /\ pc # "idle" =>
           /\ \A i \in 0..(hints_meta_index_curr - 1) : hints_meta[i] = None
           /\ \A i \in hints_meta_index_curr..hints_meta_index_last :
                  hints_meta[i] = enqueued[i + 1]
    /\ pc = "done" =>
           /\ visited = enqueued
           /\ Len(enqueued) = hint_child_placeholder_id + 1
           /\ Len(substituted) = hint_child_placeholder_id + 1
           /\ \A i \in 1..Len(substituted) : substituted[i] = 1
           /\ \A i \in 0..hints_meta_index_last : hints_meta[i] = None

\* A successful return after five metadata or more were visited.
C10_Witness ==
    /\ pc = "done"
    /\ Len(visited) >= 5
    /\ Len(substituted) = Len(visited)

\* C11: each call of _enqueue_hint_child increases the placeholder
\* identifier by one, from 0 on, so that the metadata enqueued i-th holds
\* the placeholder of identifier i - 1, and no placeholder minted occurs in
\* another one.
C11_PlaceholderIds ==
    /\ pc # "idle" => hint_child_placeholder_id = Len(enqueued) - 1
    /\ \A i \in 1..Len(enqueued) : enqueued[i][2] = Placeholder(i - 1)
    /\ \A i, j \in 1..Len(enqueued) :
           i # j => ~Occurs(enqueued[i][2], enqueued[j][2])

\* Placeholders of identifiers 1 and 10 were minted in one compilation.
C11_Witness ==
    /\ hint_child_placeholder_id >= 10
    /\ Len(enqueued) >= 11
    /\ enqueued[2][2] = <<"@[", "1", ")!">>
    /\ enqueued[11][2] = <<"@[", "1", "0", ")!">>

\* The loop has ended.
LoopEnded == pc = "loop" /\ hints_meta_index_curr > hints_meta_index_last

\* When the loop ends with the code as it was before the loop, the function
\* raises and returns nothing; else it returns.
C12_Return ==
    LoopEnded =>
        IF func_wrapper_code = func_root_code
        THEN /\ pc' = "raised"
             /\ exception' = "BeartypeDecorHintPepException"
             /\ retval' = None
        ELSE pc' = "done"

\* The code returned starts as the code before the loop does, with the
\* code of the root hint in place of the root placeholder.
C12_Expanded ==
    pc = "done" =>
        /\ retval[1] # func_root_code
        /\ ~Occurs(retval[1], Placeholder(0))
        /\ SubSeq(retval[1], 1, Len(PEP_CODE_CHECK_HINT_ROOT_PREFIX))
               = PEP_CODE_CHECK_HINT_ROOT_PREFIX
        /\ Len(retval[1]) > Len(func_root_code)

\* C12: if the loop ends with the code buffer equal to its initial form,
\* the function raises BeartypeDecorHintPepException and returns nothing; a
\* successful return carries a buffer whose root placeholder was expanded.
C12_RootExpanded == []C12_Expanded /\ [][C12_Return]_vars

\* A successful return of a root hint with child hints.
C12_Witness ==
    /\ pc = "done"
    /\ Len(visited) >= 2
    /\ ~Occurs(retval[1], Placeholder(0))
    /\ retval[1] # func_root_code

\* Whether the hint is a reducible alias: the None singleton, a metahint
\* that no beartype validator annotates, an IO generic or a new type.
IsReducibleAlias(hint) ==
    \/ hint = NoneHint
    \/ is_hint_pep593(hint) /\ ~is_hint_pep593_beartype(hint)
    \/ is_hint_pep544_io_generic(hint)
    \/ is_hint_pep484_newtype(hint)

\* C14: the hint on which the loop dispatches, the reduction of the hint
\* visited, is never itself a reducible alias.
C14_ReducedBeforeDispatch ==
    \A i \in 1..Len(visited) : ~IsReducibleAlias(Reduced(visited[i][1]))

\* C13: no ignorable hint is ever enqueued as a work item, so that for a
\* root hint that is not ignorable the assertion that every visited hint
\* is not ignorable never fails.
C13_NoIgnorableEnqueued ==
    (pc # "idle" /\ ~is_hint_ignorable(hint_root)) =>
        /\ \A i \in 1..Len(enqueued) : ~is_hint_ignorable(enqueued[i][1])
        /\ exception # "AssertionError"

RECURSIVE HasValidated(_)
\* Whether the graph of the hint holds a metahint annotated by validators
\* only.
HasValidated(hint) ==
    \/ /\ is_hint_pep593(hint)
       /\ \A i \in 2..Len(hint.a) : is_subscripted_is(hint.a[i])
    \/ \E i \in 1..Len(hint.a) : HasValidated(hint.a[i])

\* C18: the check generated for a metahint annotated by validators, nested
\* under sequences or not, passes exactly the values that satisfy the hint
\* annotated and every validator; the hint annotated is enqueued once and
\* the scope returned binds the callable of every validator.
C18_ValidatedMetahint ==
    /\ (outcome # "" /\ HasValidated(hint_root) /\ ~HasUnion(hint_root)) =>
           outcome = Expected
    /\ (pc = "done" /\ is_hint_pep593(hint_root)
            /\ is_hint_pep593_beartype(hint_root)) =>
           /\ Cardinality({i \in 1..Len(enqueued) :
                  enqueued[i][1] = get_hint_pep593_metahint(hint_root)}) = 1
           /\ \A i \in 2..Len(hint_root.a) :
                  is_valid_code_locals(hint_root.a[i]) \subseteq retval[2]

\* Whether the hint is a metahint whose first annotation is a validator and
\* one of whose other annotations is none.
IsMixed(hint) ==
    /\ is_hint_pep593(hint)
    /\ is_hint_pep593_beartype(hint)
    /\ \E i \in 3..Len(hint.a) : ~is_subscripted_is(hint.a[i])

\* C19: when the loop visits a metahint whose first annotation is a
\* validator and one of whose other annotations is none, the function raises
\* BeartypeDecorHintPep593Exception and returns no tuple, wherever in the
\* graph the metahint is.
C19_MixedMetadataFatal ==
    [][(Visiting /\ IsMixed(Curr.hint_curr)) =>
           /\ pc' = "raised"
           /\ exception' = "BeartypeDecorHintPep593Exception"
           /\ retval' = None]_vars

\* The function raised on such a metahint two levels below the root hint,
\* after the code of the hints above was expanded.
C19_Witness ==
    /\ pc = "raised"
    /\ exception = "BeartypeDecorHintPep593Exception"
    /\ IsMixed(LastVisited[1])
    /\ Len(visited) = 3
    /\ func_wrapper_code # func_root_code
    /\ retval = None

\* The classnames of the forward references the loop visited, qualified or
\* not.
VisitedRefs(qualified) ==
    { get_hint_forwardref_classname(Reduced(visited[i][1])) :
        i \in { j \in 1..Len(visited) :
                  /\ get_hint_pep_sign(Reduced(visited[j][1])) =
                         HINT_PEP484_TYPE_FORWARDREF
                  /\ ("." \in Range(Chars(Reduced(visited[j][1]).n)))
                         = qualified } }

\* C20: on return, the code tests every qualified forward reference visited
\* against the class the registry holds under its name, the scope binding
\* the registry, and every unqualified one against the placeholder of its
\* name; the third item returned holds the unqualified classnames visited,
\* each once, and no other.
C20_ForwardReferences ==
    pc = "done" =>
        /\ \A classname \in VisitedRefs(TRUE) :
               /\ Occurs(retval[1], <<"isinstance(">>)
               /\ Occurs(retval[1],
                      <<",", "__beartypistry", "[", classname, "]", ")">>)
               /\ \E b \in retval[2] : b.name = ARG_NAME_TYPISTRY
        /\ \A classname \in VisitedRefs(FALSE) :
               Occurs(retval[1], <<",", "${FORWARDREF:", classname, "]?", ")">>)
        /\ Range(retval[3]) = VisitedRefs(FALSE)
        /\ Len(retval[3]) = Cardinality(VisitedRefs(FALSE))

\* The function returned after visiting one forward reference twice, another
\* unqualified one and a qualified one.
C20_Witness ==
    /\ pc = "done"
    /\ Len(retval[3]) = 2
    /\ VisitedRefs(TRUE) # {}
    /\ \E i, j \in 1..Len(visited) :
           /\ i # j
           /\ visited[i][1] = visited[j][1]
           /\ get_hint_pep_sign(visited[i][1]) = HINT_PEP484_TYPE_FORWARDREF

\* C17: the check generated for a generic or protocol passes exactly the
\* instances of its class that satisfy every pseudo-superclass of it that
\* is no plain class; plain classes enqueue nothing.
C17_Generic ==
    /\ (outcome # "" /\ get_hint_pep_sign(hint_root) = Generic) =>
           outcome = Expected
    /\ (pc = "done" /\ get_hint_pep_sign(hint_root) = Generic) =>
           \A i \in 1..Len(enqueued) : enqueued[i][1] \notin {B, X, Y}

\* The conditions of the branches of the dispatch chain as the code writes
\* them, in the order of the chain.
BranchConditions(hint) ==
    << [branch |-> "union",
        holds |-> get_hint_pep_sign(hint) \in HINT_PEP_SIGNS_UNION],
       [branch |-> "shallow", holds |-> IsShallow(hint)],
       [branch |-> "sequence", holds |-> IsSequence(hint)],
       [branch |-> "tuple",
        holds |-> get_hint_pep_sign(hint) \in HINT_PEP_SIGNS_TUPLE],
       [branch |-> "annotated",
        holds |-> get_hint_pep_sign(hint) = HINT_PEP593_SIGN_ANNOTATED],
       [branch |-> "forwardref",
        holds |-> get_hint_pep_sign(hint) = HINT_PEP484_TYPE_FORWARDREF],
       [branch |-> "generic", holds |-> get_hint_pep_sign(hint) = Generic],
       [branch |-> "literal",
        holds |-> get_hint_pep_sign(hint) = HINT_PEP586_SIGN_LITERAL] >>

\* The branches whose condition holds of the hint, by position.
Holding(hint) ==
    {i \in 1..Len(BranchConditions(hint)) : BranchConditions(hint)[i].holds}

\* The first branch of the chain whose condition holds, "none" if none.
FirstBranch(hint) ==
    IF Holding(hint) = {} THEN "none"
    ELSE BranchConditions(hint)[
             CHOOSE i \in Holding(hint) : \A j \in Holding(hint) : i <= j].branch

\* C15 as claimed: of every visited hint that is PEP-compliant and
\* supported, the condition of exactly one branch holds.
C15_MutuallyExclusive ==
    \A i \in 1..Len(visited) :
        IsSupportedPep(Reduced(visited[i][1])) =>
            Cardinality(Holding(Reduced(visited[i][1]))) = 1

\* C15 as amended: every visited hint that is PEP-compliant and supported
\* takes the first branch of the chain whose condition holds of it, and the
\* function raises if none holds.
C15_FirstBranchTaken ==
    \A i \in 1..Len(dispatched) :
        IsSupportedPep(Reduced(visited[i][1])) =>
            /\ dispatched[i] = FirstBranch(Reduced(visited[i][1]))
            /\ dispatched[i] = "none" => pc = "raised"

\* The function returned after a variadic tuple, of which the conditions of
\* two branches hold, took the branch of sequences.
C15_Witness ==
    /\ pc = "done"
    /\ \E i \in 1..Len(dispatched) :
           /\ Cardinality(Holding(Reduced(visited[i][1]))) = 2
           /\ dispatched[i] = "sequence"

\* The object a scope entry binds: an object or a callable, else a class or
\* the classes of a tuple.
Bound(b) == IF "value" \in DOMAIN b THEN <<b.value>> ELSE <<b.types>>

LiteralDepth(hint) ==
    CASE hint.k = "literal" -> 1
      [] hint.k = "list" /\ hint.a # <<>> /\ hint.a[1].k = "literal" -> 2
      [] OTHER -> 0

NoReturnVisits ==
    {i \in 2..Len(visited) : Reduced(visited[i][1]) = NoReturn}

\* C22: once typing.NoReturn was visited as a child hint, the compilation
\* has raised BeartypeDecorHintPep484Exception and has returned nothing.
C22_NoReturn ==
    NoReturnVisits # {} =>
        /\ pc = "raised"
        /\ exception = "BeartypeDecorHintPep484Exception"
        /\ retval = None
        /\ NoReturnVisits = {Len(visited)}

\* typing.NoReturn was visited as the child of a list that is itself the
\* child of a list annotated by a validator.
C22_Witness ==
    /\ NoReturnVisits # {}
    /\ hint_root = Annotated(List(List(NoReturn)), <<Is2>>)
    /\ dispatched = <<"annotated", "sequence", "sequence", "shallow">>

RECURSIVE SubHints(_)
\* The hints that the loop may enqueue for a hint: the hint, what it
\* reduces to, its child hints, erased or not, and theirs.
SubHints(hint) ==
    {hint} \cup
        (IF Reduced(hint) # hint THEN SubHints(Reduced(hint))
         ELSE UNION { SubHints(hint.a[i]) \cup
                          {get_hint_pep484_generic_base_erased_from_unerased(
                               hint.a[i])} :
                      i \in 1..Len(hint.a) })

\* C23: over calls that share the pools, every item of the fixed list that
\* is not None was assigned by the current call, as is the item the loop
\* reads; every fixed list in the pool holds None only; and every hint
\* enqueued and every class bound is one of the root hint of the current
\* call, none being left in a pooled set by an earlier call.
C23_PoolFresh ==
    /\ pc = "loop" =>
           \A i \in DOMAIN hints_meta :
               hints_meta[i] # None => hints_meta_writer[i] = compilation
    /\ Visiting =>
           /\ hints_meta[hints_meta_index_curr] # None
           /\ hints_meta_writer[hints_meta_index_curr] = compilation
    /\ \A k \in 1..Len(pool_fixed_list) :
           \A i \in DOMAIN pool_fixed_list[k].meta :
               pool_fixed_list[k].meta[i] = None
    /\ pc # "idle" =>
           /\ \A i \in 1..Len(enqueued) :
                  enqueued[i][1] \in SubHints(hint_root)
           /\ \A b \in func_wrapper_locals :
                  b.name[1] \in {"__beartype_type_", "__beartype_tuple_"} =>
                      b.types \subseteq
                          {IF h.k = "object" THEN TypeOf(h) ELSE h.n :
                              h \in SubHints(hint_root)}

\* The third call visited a union in a list, after acquiring a fixed list
\* that an earlier call assigned further than this call has; the pool holds
\* the sets of the union.
C23_Witness ==
    /\ compilation = MaxCompilations
    /\ hint_root = List(Union(<<X, Y>>))
    /\ dispatched = <<"sequence", "union">>
    /\ pool_set = <<{X, Y}, {}>>
    /\ \E i \in DOMAIN hints_meta_writer :
           /\ i > hints_meta_index_last
           /\ hints_meta_writer[i] \in 1..(compilation - 1)

\* The calls of BeartypeConf that returned a configuration.
ConfReturned == {i \in 1..Len(conf_calls) : conf_calls[i].exc = ""}

\* C24: of the calls of BeartypeConf that returned, two returned the same
\* configuration iff their parameters are equal, an is_color that was not
\* passed being the value that get_is_color() gives it; a call without
\* parameters returns BEARTYPE_CONF_DEFAULT.
C24_Memoized ==
    /\ \A i, j \in ConfReturned :
           (conf_calls[i].conf = conf_calls[j].conf) =
               PyTupleEq(ConfArgs(conf_calls[i].kw),
                         ConfArgs(conf_calls[j].kw))
    /\ \A i \in 1..Len(conf_calls) :
           conf_calls[i].kw = ParamDefaults =>
               conf_calls[i].exc = "" /\ conf_calls[i].conf = 1

\* Two calls passing is_debug=True returned one configuration, which is
\* not the default one.
C24_Witness ==
    /\ Len(conf_calls) = 2
    /\ conf_calls[1].kw = [ParamDefaults EXCEPT !.is_debug = PyTrue]
    /\ conf_calls[2].kw = conf_calls[1].kw
    /\ conf_calls[1].conf = 2
    /\ conf_calls[2].conf = 2

\* C25: every call of BeartypeConf whose parameters fail the validation
\* raises BeartypeConfParamException, whatever was instantiated before.
C25_InvalidRaises ==
    \A i \in 1..Len(conf_calls) :
        ConfValidated(conf_calls[i].kw) # "" =>
            conf_calls[i].exc = "BeartypeConfParamException"

\* C26: BeartypeConf(**conf.kwargs) returns conf.
C26_KwargsRoundTrip ==
    \A i \in 1..Len(conf_calls) :
        conf_calls[i].of # 0 =>
            /\ conf_calls[i].exc = ""
            /\ conf_calls[i].conf = conf_calls[i].of

\* The public property of a parameter.
ConfProperty(conf, name) == conf._conf_kwargs[name]

\* C27: two configurations are equal iff the public properties of their
\* parameters are equal, equal configurations have equal hashes, and the
\* comparison with an object that is no configuration yields
\* NotImplemented.
C27_EqHash ==
    conf_compared # None =>
        IF conf_compared.other = 0
        THEN conf_compared.eq = "NotImplemented"
        ELSE /\ (conf_compared.eq = "True") =
                    (\A k \in 1..Len(ParamNames) :
                        PyEq(ConfProperty(conf_instances[conf_compared.self],
                                          ParamNames[k]),
                             ConfProperty(conf_instances[conf_compared.other],
                                          ParamNames[k])))
             /\ conf_compared.eq = "True" =>
                    conf_compared.hash_self = conf_compared.hash_other

RECURSIVE Subscripts(_, _, _)
\* Whether the source hint occurs in a subscription of the target hint.
Subscripts(src, trg, subscripted) ==
    \/ subscripted /\ src = trg
    \/ \E i \in 1..Len(trg.a) :
           Subscripts(src, trg.a[i],
                      subscripted \/ trg.k \in {"pep585", "typing"})

\* C28: instantiating BeartypeHintOverrides raises
\* BeartypeHintOverridesException iff the source hint of some item occurs in
\* a subscription of its target hint; recursion in a union alone is
\* accepted.
C28_SubscriptionRecursion ==
    (hint_overrides_exception = "BeartypeHintOverridesException") =
        (\E i \in 1..Len(hint_overrides) :
            Subscripts(hint_overrides[i][1], hint_overrides[i][2], FALSE))

\* The values a parameter is to be type-checked with, in order: what was
\* passed for it, if anything; params[i] has the 0-based index i - 1.
ParamPassed(param, i, args, kwargs) ==
    CASE param.kind = "POSITIONAL_OR_KEYWORD" ->
             IF Len(args) > i - 1 THEN <<args[i]>>
             ELSE IF param.name \in DOMAIN kwargs THEN <<kwargs[param.name]>>
             ELSE <<>>
      [] param.kind = "KEYWORD_ONLY" ->
             IF param.name \in DOMAIN kwargs THEN <<kwargs[param.name]>>
             ELSE <<>>
      [] param.kind = "VAR_POSITIONAL" ->
             [j \in 1..(IF Len(args) > i - 1 THEN Len(args) - (i - 1) ELSE 0)
                 |-> args[i - 1 + j]]

\* The values the call has type-checked under the pith name given.
ChecksOf(name) ==
    LET of == SelectSeq(wrapper_checks, LAMBDA c : c.name = name)
    IN  [j \in 1..Len(of) |-> of[j].v]

IsPrefix(short, long) ==
    Len(short) <= Len(long) /\ short = SubSeq(long, 1, Len(short))

\* The annotated parameters of the callable decorated, by their 1-based
\* positions.
AnnotatedParams ==
    {i \in 1..Len(wrapper_func.params) : wrapper_func.params[i].hint # ""}

C30_ReturnChecked ==
    wrapper_code # <<>> =>
        /\ Len(func_calls) <= 1
        /\ \A c \in 1..Len(func_calls) :
               /\ func_calls[c].args = wrapper_args
               /\ func_calls[c].kwargs = wrapper_kwargs
        /\ \A c \in 1..Len(wrapper_checks) :
               wrapper_checks[c].name = "return" =>
                   /\ Len(func_calls) = 1
                   /\ wrapper_checks[c].calls = 1
                   /\ ~func_calls[1].raises
                   /\ wrapper_checks[c].v = func_calls[1].result
        /\ wrapper_outcome.how = "returned" =>
               /\ Len(func_calls) = 1
               /\ ~func_calls[1].raises
               /\ wrapper_outcome.value = func_calls[1].result
               /\ wrapper_func.ret # "NoReturn"
               /\ IsInstance(func_calls[1].result, wrapper_func.ret)
               /\ ChecksOf("return") = <<func_calls[1].result>>
        /\ wrapper_func.ret # "NoReturn" /\ func_calls # <<>>
               /\ wrapper_pc = 0 /\ ~func_calls[1].raises =>
                   wrapper_outcome.how =
                       IF IsInstance(func_calls[1].result, wrapper_func.ret)
                       THEN "returned" ELSE "BeartypeCallHintViolation"
        /\ wrapper_func.ret = "NoReturn" /\ func_calls # <<>>
               /\ ~func_calls[1].raises =>
                   \/ wrapper_outcome.how = "BeartypeCallHintViolation"
                   \/ /\ wrapper_outcome = Running
                      /\ wrapper_pc \in 1..Len(wrapper_code)
                      /\ wrapper_code[wrapper_pc].op
                             = "__beartype_raise_pep_call_exception()"

\* A wrapper has returned the value its callable returned, after checks of
\* parameters.
C30_Witness ==
    /\ wrapper_outcome.how = "returned"
    /\ Len(wrapper_checks) > 1
    /\ wrapper_outcome.value = func_calls[1].result

\* The wrapper of a callable annotated by NoReturn has raised the violation
\* after the callable returned.
C30_WitnessNoReturn ==
    /\ wrapper_code # <<>>
    /\ wrapper_func.ret = "NoReturn"
    /\ func_calls # <<>>
    /\ ~func_calls[1].raises
    /\ wrapper_outcome.how = "BeartypeCallHintViolation"

\* C31: every index at which the fixed list hints_meta is written or read
\* is below SIZE_BIG: no enqueue raises IndexError, whatever the root hint.
C31_IndexInBounds ==
    /\ hints_meta_index_last < SIZE_BIG
    /\ hints_meta_index_curr < SIZE_BIG
    /\ exception # "IndexError"

\* The visit of a union hands the pith expressions of C32 to the child
\* hints it enqueues.
C32_Visit ==
    (Visiting /\ dispatched' = Append(dispatched, "union")) =>
        \A j \in (Len(enqueued) + 1)..Len(enqueued') :
            enqueued'[j][3] =
                IF /\ hint_childs_nonpep_of(Curr.hint_curr) = {}
                   /\ j = Len(enqueued) + 1
                THEN Curr.pith_curr_assign_expr
                ELSE Curr.pith_curr_assigned_expr

\* C32: of the PEP-compliant child hints a union enqueues, the first
\* receives the assignment expression of the pith if the union has no
\* PEP-noncompliant child hint, and every other one the name of the
\* variable assigned; all of them receive that name if the union has a
\* PEP-noncompliant child hint.
C32_UnionPiths == [][C32_Visit]_vars

\* The child hints that C33 has a generic enqueue, in order: each
\* pseudo-superclass that is no class, unreduced if it is a PEP 585 hint or
\* a hint of the typing module and reduced to its erased superclass
\* otherwise, unless it is ignorable.
C33_Childs(hint) ==
    LET bases == get_hint_pep_generic_bases_unerased(hint)
        childs ==
            [i \in 1..Len(bases) |->
                [base |-> bases[i],
                 child |->
                     IF \/ is_hint_pep585_builtin(bases[i])
                        \/ is_hint_pep_typing(bases[i])
                     THEN bases[i]
                     ELSE get_hint_pep484_generic_base_erased_from_unerased(
                              bases[i])]]
        kept == SelectSeq(childs,
                    LAMBDA c : ~is_class(c.base) /\ ~is_hint_ignorable(c.child))
    IN  [i \in 1..Len(kept) |-> kept[i].child]

\* The visit of a generic enqueues the child hints of C33, each with the
\* assigned pith expression of the generic.
C33_Visit ==
    (Visiting /\ dispatched' = Append(dispatched, "generic")) =>
        LET childs == C33_Childs(Curr.hint_curr)
        IN  /\ Len(enqueued') = Len(enqueued) + Len(childs)
            /\ \A j \in 1..Len(childs) :
                   /\ enqueued'[Len(enqueued) + j][1] = childs[j]
                   /\ enqueued'[Len(enqueued) + j][3]
                          = Curr.pith_curr_assigned_expr

\* C33: the generic branch reduces a pseudo-superclass that is no class to
\* its erased superclass only if it is neither a PEP 585 hint nor a hint of
\* the typing module; a PEP 585 hint or a typing hint is enqueued
\* unreduced, with the assigned pith expression of the generic.
C33_GenericBases == [][C33_Visit]_vars

\* The visits of standard sequences and variadic tuples whose child hint is
\* not ignorable.
SampledVisits ==
    {i \in 1..Len(dispatched) :
        /\ dispatched[i] = "sequence"
        /\ ~is_hint_ignorable(
               get_hint_pep_args(Reduced(visited[i][1]))[1])}

\* Visiting a sequence whose child hint is ignorable yields the shallow
\* test alone, enqueues nothing and requires no random integer.
C34_Visit ==
    (/\ Visiting
     /\ dispatched' = Append(dispatched, "sequence")
     /\ is_hint_ignorable(get_hint_pep_args(Curr.hint_curr)[1])) =>
        /\ enqueued' = enqueued
        /\ is_var_random_int_needed' = is_var_random_int_needed
        /\ func_curr_code' =
               <<"isinstance(">> \o Curr.pith_curr_expr
                   \o <<",", "__beartype_type_",
                        get_hint_pep_stdlib_type(Curr.hint_curr), ")">>

\* What pep_code_check_hint() and make_func_wrapper_code() returned binds
\* getrandbits and passes the random integer iff a sequence was sampled.
C34_Returned ==
    /\ pc = "done" =>
           /\ InScope(ARG_NAME_GETRANDBITS, retval[2]) = (SampledVisits # {})
           /\ Occurs(retval[1], PEP_CODE_CHECK_HINT_ROOT_SUFFIX_RANDOM_INT)
                  = (SampledVisits # {})
    /\ func_wrapper_made # None =>
           /\ InScope(ARG_NAME_GETRANDBITS, func_wrapper_made[2])
                  = (SampledVisits # {})
           /\ Occurs(func_wrapper_made[1], CODE_HINT_ROOT_SUFFIX_RANDOM_INT)
                  = (SampledVisits # {})

C34_WitnessShallow ==
    /\ func_wrapper_made # None
    /\ SampledVisits = {}
    /\ \E i \in 1..Len(dispatched) : dispatched[i] = "sequence"

\* The threads whose call of BeartypeConf returned.
ThreadsReturned == {t \in Threads : conf_threads[t].pc = "returned"}

\* The threads between entering and leaving the lock.
ThreadsLocked ==
    {t \in Threads : conf_threads[t].pc \notin {"idle", "returned", "raised"}}

CountIn(seq, hint) == Cardinality({j \in 1..Len(seq) : seq[j] = hint})

\* Whether two sequences hold the same items as many times each.
SameItems(seq1, seq2) ==
    /\ Len(seq1) = Len(seq2)
    /\ \A j \in 1..Len(seq1) : CountIn(seq1, seq1[j]) = CountIn(seq2, seq1[j])

\* The hints of the metadata.
HintsOf(metas) == [j \in 1..Len(metas) |-> metas[j][1]]

\* The child hints that the hint visited refers to and that are not
\* ignorable, the hint taking the branch named.
ChildReferences(hint, branch) ==
    LET childs ==
            IF branch \in {"union", "tuple"} THEN get_hint_pep_args(hint)
            ELSE IF branch = "sequence" THEN <<get_hint_pep_args(hint)[1]>>
            ELSE IF branch = "annotated"
            THEN <<get_hint_pep593_metahint(hint)>>
            ELSE IF branch = "generic"
            THEN get_hint_pep_generic_bases_unerased(hint)
            ELSE <<>>
    IN  SelectSeq(childs, LAMBDA child : ~is_hint_ignorable(child))

\* The child hints that the branch named enqueues when it visits the hint:
\* each PEP-compliant child hint of a union, the child hint of a sequence
\* and each child hint of a fixed-length tuple unless ignorable, the hint
\* that a metahint annotates, and each pseudo-superclass of a generic that
\* is no class, as the branch reduces it, unless ignorable.
ChildsEnqueued(hint, branch) ==
    IF branch = "union"
    THEN CHOOSE order \in IterationOrders(hint_childs_pep_of(hint)) : TRUE
    ELSE IF branch \in {"sequence", "tuple"}
    THEN ChildReferences(hint, branch)
    ELSE IF branch = "annotated" THEN <<get_hint_pep593_metahint(hint)>>
    ELSE IF branch = "generic"
    THEN LET bases == SelectSeq(get_hint_pep_generic_bases_unerased(hint),
                          LAMBDA base : ~is_class(base))
             erased ==
                 [j \in 1..Len(bases) |->
                     get_hint_pep484_generic_base_erased_from_unerased(
                         bases[j])]
         IN  SelectSeq(erased, LAMBDA child : ~is_hint_ignorable(child))
    ELSE <<>>

\* The visits so far, each with the hint visited, reduced, and its branch.
Visits ==
    [i \in 1..Len(visited) |->
        [hint |-> Reduced(visited[i][1]), branch |-> dispatched[i]]]

\* How many times the visits so far refer to the hint as a child hint that
\* refs has their branch refer to.
Referenced(refs(_, _), hint) ==
    Cardinality(UNION {
        {<<i, j>> : j \in {k \in 1..Len(refs(Visits[i].hint, Visits[i].branch)) :
                              refs(Visits[i].hint, Visits[i].branch)[k] = hint}} :
        i \in 1..Len(visited)})

\* How many child hints the visits so far refer to.
References(refs(_, _)) ==
    Cardinality(UNION {
        {<<i, j>> : j \in 1..Len(refs(Visits[i].hint, Visits[i].branch))} :
        i \in 1..Len(visited)})

\* Whether the call has ended, and with an empty queue.
Ended == pc \in {"done", "raised"}

QueueEmpty == hints_meta_index_curr > hints_meta_index_last

\* The loop once entered is left.
LoopTerminates == (pc = "loop") ~> Ended

C36_Visit ==
    Visiting =>
        LET branch == dispatched'[Len(dispatched')]
            new == SubSeq(enqueued', Len(enqueued) + 1, Len(enqueued'))
        IN  /\ Len(visited') = Len(visited) + 1
            /\ IF pc' = "loop"
               THEN /\ hints_meta_index_curr' = hints_meta_index_curr + 1
                    /\ SameItems(HintsOf(new),
                           ChildsEnqueued(Curr.hint_curr, branch))
               ELSE /\ pc' = "raised"
                    /\ hints_meta_index_curr' = hints_meta_index_curr
                    /\ hints_meta_index_curr' <= hints_meta_index_last'

\* The call ends either as a visit raises or with an empty queue, and in
\* the latter case after as many iterations as hints were enqueued: the
\* root hint once and every other hint once for each time the branch of a
\* visited hint enqueues it.
C36_Ended ==
    /\ pc = "done" => QueueEmpty
    /\ (Ended /\ QueueEmpty) =>
           /\ hints_meta_index_curr = Len(visited)
           /\ Len(visited) = Len(enqueued)
           /\ Len(enqueued) = 1 + References(ChildsEnqueued)
           /\ \A j \in 1..Len(enqueued) :
                  CountIn(HintsOf(visited), enqueued[j][1]) =
                      (IF j = 1 THEN 1 ELSE 0)
                          + Referenced(ChildsEnqueued, enqueued[j][1])

=============================================================================
